---- MODULE Spec2Model ----
(***************************************************************************)
(* Directory ingestion, result cache and search of the OCFL CLI            *)
(* (src/ocfl.py) and the menus and text handler of its wizard              *)
(* (src/wizard.py).  Strings are sequences of one-character strings.       *)
(* Scores of _fuzzy_search are rationals; they are kept exact by scaling   *)
(* every score of one call by 10 * n, n the number of query tokens.        *)
(***************************************************************************)
EXTENDS Integers, Sequences, FiniteSets, TLC

VARIABLES
    entries,    \* the list handed to _fuzzy_search / _regex_search
    query,      \* the command-line argument: query string or regex pattern
    fuzzRatio,  \* what thefuzz's token_set_ratio returns, per lowercased name
    jsonOpt,    \* whether --json was given
    ret,        \* the value returned by the last search function call
    out,        \* what the last directory command printed
    nCompile,   \* how many times re.compile has been called
    pc,         \* "start" before the call, then the function or command run
    now,        \* time.time(), in seconds
    ticks,      \* how many times the clock has advanced
    source,     \* DIRECTORY.md: whether it exists, and its lines
    cacheFile,  \* per kind, the cache file: exists, st_mtime, content
    disk,       \* what a write to the cache directory meets: ok, denied, full
    lastCall,   \* what the last loader call saw and did
    scan,       \* the categorized scan in progress: next line, categories, cursor
    proc,       \* the concurrent loader invocations: position and locals of each
    wiz         \* the wizard session: the button pressed or text sent, the response

searchVars == <<entries, query, fuzzRatio, jsonOpt, ret, out, nCompile, pc>>

cacheVars == <<now, ticks, source, cacheFile, disk, lastCall>>

stepVars == <<scan, proc, wiz>>

vars == <<entries, query, fuzzRatio, jsonOpt, ret, out, nCompile, pc,
          now, ticks, source, cacheFile, disk, lastCall, scan, proc, wiz>>

----------------------------------------------------------------------------
(* Bounds of the model *)

\* longest list of entries enumerated exhaustively
MaxLen == 2
\* how many entries beyond the result cap the long lists reach
MaxOver == 2
\* longest query
MaxQueryLen == 3
\* longest regex pattern
MaxPatternLen == 2
\* how many times the clock advances
MaxTicks == 2
\* longest source document, in lines
MaxDocLen == 4
\* how many words the queries of several words have
MaxTokens == 3

----------------------------------------------------------------------------
(* Strings *)

Min(a, b) == IF a < b THEN a ELSE b

Max(a, b) == IF a > b THEN a ELSE b

\* all sequences over S of length at most n
StrsUpTo(S, n) == UNION {[1..k -> S] : k \in 0..n}

\* str.lower(), one character
LowerChar(c) ==
    CASE c = "A" -> "a"
      [] c = "B" -> "b"
      [] OTHER -> c

\* str.lower()
Lower(s) == [i \in 1..Len(s) |-> LowerChar(s[i])]

\* needle in hay (Python's substring test; the empty string is in every string)
Contains(hay, needle) ==
    \E i \in 0..(Len(hay) - Len(needle)) :
        \A j \in 1..Len(needle) : hay[i + j] = needle[j]

RECURSIVE SplitFrom(_, _, _)
SplitFrom(s, i, cur) ==
    IF i > Len(s)
    THEN IF cur = <<>> THEN <<>> ELSE <<cur>>
    ELSE IF s[i] = " "
         THEN IF cur = <<>>
              THEN SplitFrom(s, i + 1, <<>>)
              ELSE <<cur>> \o SplitFrom(s, i + 1, <<>>)
         ELSE SplitFrom(s, i + 1, Append(cur, s[i]))

\* str.split(): the whitespace-separated tokens, none empty
Split(s) == SplitFrom(s, 1, <<>>)

\* set(s.split())
TokenSet(s) == {Split(s)[i] : i \in DOMAIN Split(s)}

\* e.get(field, ""): a missing key reads as the empty string
Get(e, field) == IF field \in DOMAIN e THEN e[field] ELSE <<>>

\* x is None
IsNone(x) == x = "None"

\* seq[:n]
Take(seq, n) == SubSeq(seq, 1, Min(n, Len(seq)))

----------------------------------------------------------------------------
(* _fuzzy_search *)

\* the slice bound of scored[:15]
MaxResults == 15

\* fuzz.token_set_ratio(query_lower, name_lower): an integer in 0..100 computed
\* by the thefuzz library; the model takes it from the oracle fuzzRatio
TokenSetRatio(query_lower, name_lower) == fuzzRatio[name_lower]

\* the factor that makes the scores of one call integers: 10 * len(query_tokens)
ScoreScale(q) == 10 * Max(1, Cardinality(TokenSet(Lower(q))))

NameContainsQuery(e, q) == Contains(Lower(e["name"]), Lower(q))

\* a token score that is 80 when every query token is found and 0 otherwise
TokenScoreAllOrNothing(e, q) ==
    LET query_tokens == TokenSet(Lower(q))
        name_tokens == TokenSet(Lower(e["name"]))
    IN  IF /\ query_tokens # {}
           /\ \A qt \in query_tokens : \E nt \in name_tokens : Contains(nt, qt)
        THEN 80 * 10 * Cardinality(query_tokens)
        ELSE 0

\* token_score = (token_hits / len(query_tokens)) * 80 if query_tokens else 0
TokenScore(e, q) ==
    LET query_tokens == TokenSet(Lower(q))
        name_tokens == TokenSet(Lower(e["name"]))
        token_hits == Cardinality({qt \in query_tokens :
                                      \E nt \in name_tokens : Contains(nt, qt)})
    IN  IF query_tokens # {} THEN 80 * 10 * token_hits ELSE 0

\* fuzz_score = fuzz.token_set_ratio(query_lower, name_lower) * 0.7
FuzzScore(e, q) ==
    7 * TokenSetRatio(Lower(q), Lower(e["name"])) * (ScoreScale(q) \div 10)

\* no field bonus at all
FieldBonusOff(e, q) == 0

\* field_bonus: 80 when the query is in the phone, email or url field
FieldBonus(e, q) ==
    IF \E field \in {"phone", "email", "url"} :
           Contains(Lower(Get(e, field)), Lower(q))
    THEN 80 * ScoreScale(q)
    ELSE 0

\* best = max(token_score, fuzz_score, field_bonus)
BestScore(e, q) == Max(TokenScore(e, q), Max(FuzzScore(e, q), FieldBonus(e, q)))

\* the score the entry is appended with: 100 on a name-substring match
EntryScore(e, q) ==
    IF NameContainsQuery(e, q) THEN 100 * ScoreScale(q) ELSE BestScore(e, q)

\* if best > 40
AboveThresholdOff(e, q) == BestScore(e, q) >= 40 * ScoreScale(q)

AboveThreshold(e, q) == BestScore(e, q) > 40 * ScoreScale(q)

\* whether the loop appends the entry to scored
IsCandidate(e, q) == NameContainsQuery(e, q) \/ AboveThreshold(e, q)

RECURSIVE ScoredFrom(_, _, _)
ScoredFrom(es, q, i) ==
    IF i > Len(es) THEN <<>>
    ELSE IF IsCandidate(es[i], q)
         THEN <<[score |-> EntryScore(es[i], q), e |-> es[i], idx |-> i]>>
              \o ScoredFrom(es, q, i + 1)
         ELSE ScoredFrom(es, q, i + 1)

\* the list scored after the loop; idx is the position in entries (model only)
Scored(es, q) == ScoredFrom(es, q, 1)

InsertDescUnstable(sorted, x) ==
    LET k == Cardinality({i \in DOMAIN sorted : sorted[i].score > x.score})
    IN  SubSeq(sorted, 1, k) \o <<x>> \o SubSeq(sorted, k + 1, Len(sorted))

\* one insertion of a stable descending sort: x goes after every element whose
\* score is not smaller
InsertDesc(sorted, x) ==
    LET k == Cardinality({i \in DOMAIN sorted : sorted[i].score >= x.score})
    IN  SubSeq(sorted, 1, k) \o <<x>> \o SubSeq(sorted, k + 1, Len(sorted))

RECURSIVE SortDescFrom(_, _, _)
SortDescFrom(scored, i, acc) ==
    IF i > Len(scored) THEN acc
    ELSE SortDescFrom(scored, i + 1, InsertDesc(acc, scored[i]))

SortDescAscending(scored) ==
    LET d == SortDescFrom(scored, 1, <<>>)
    IN  [i \in 1..Len(d) |-> d[Len(d) + 1 - i]]

\* scored.sort(key=lambda x: -x[0]): list.sort is stable
SortDesc(scored) == SortDescFrom(scored, 1, <<>>)

RankedScoredNoCap(es, q) == SortDesc(Scored(es, q))

\* scored[:15] after the sort, still with scores
RankedScored(es, q) == Take(SortDesc(Scored(es, q)), MaxResults)

\* return [e for _, e in scored[:15]]
FuzzySearch(es, q) ==
    LET r == RankedScored(es, q) IN [i \in 1..Len(r) |-> r[i].e]

----------------------------------------------------------------------------
(* _regex_search *)

\* re.compile fails on a "(" that is never closed; the pattern alphabet of the
\* model has no ")", so every "(" is unterminated
CompileError(pattern) == \E i \in DOMAIN pattern : pattern[i] = "("

\* str(err): the compiler's message with the 0-based position of the innermost
\* unterminated group
ErrorMessage(pattern) ==
    LET i == CHOOSE i \in DOMAIN pattern :
                 /\ pattern[i] = "("
                 /\ \A j \in DOMAIN pattern : pattern[j] = "(" => j <= i
    IN  <<"missing ), unterminated subpattern at position", i - 1>>

\* one pattern character against one text character under re.IGNORECASE
CharMatches(p, c) == p = "." \/ LowerChar(p) = LowerChar(c)

\* rx.search(text) for a compiled pattern of literals and "."
RxSearch(pattern, text) ==
    \E i \in 0..(Len(text) - Len(pattern)) :
        \A j \in 1..Len(pattern) : CharMatches(pattern[j], text[i + j])

\* f"{e['name']} {e.get('phone','')} {e.get('email','')} {e.get('url','')} {e.get('address','')}"
Searchable(e) ==
    e["name"] \o <<" ">> \o Get(e, "phone") \o <<" ">> \o Get(e, "email")
        \o <<" ">> \o Get(e, "url") \o <<" ">> \o Get(e, "address")

RegexSearchCapped(es, pattern) ==
    IF CompileError(pattern)
    THEN [results |-> "None", err |-> ErrorMessage(pattern)]
    ELSE [results |-> Take(SelectSeq(es, LAMBDA e : RxSearch(pattern, Searchable(e))),
                           MaxResults),
          err |-> "None"]

RegexSearchSwallow(es, pattern) ==
    IF CompileError(pattern)
    THEN [results |-> <<>>, err |-> "None"]
    ELSE [results |-> SelectSeq(es, LAMBDA e : RxSearch(pattern, Searchable(e))),
          err |-> "None"]

\* _regex_search: (results, None), or (None, message) when compiling fails
RegexSearch(es, pattern) ==
    IF CompileError(pattern)
    THEN [results |-> "None", err |-> ErrorMessage(pattern)]
    ELSE [results |-> SelectSeq(es, LAMBDA e : RxSearch(pattern, Searchable(e))),
          err |-> "None"]

----------------------------------------------------------------------------
(* The source document DIRECTORY.md                                        *)
(* A document is the sequence of its lines.  A line records what the       *)
(* extractors' tests and regular expressions read from its text: its       *)
(* leading marker (kind), the heading text, the cells between the pipes,   *)
(* the phone numbers, e-mail addresses and URLs that occur in it (in       *)
(* order), the text after "**Address:**", and which of the literal words   *)
(* the code looks for occur in it (marks).                                 *)

Line(kind, text, cells, phones, emails, urls, address, marks) ==
    [kind |-> kind, text |-> text, cells |-> cells, phones |-> phones,
     emails |-> emails, urls |-> urls, address |-> address, marks |-> marks]

\* "- [text](target)": a bullet holding a markdown link
LinkBullet(text, target, phones) ==
    Line("link", text, <<>>, phones, <<>>, <<target>>, "", {})

\* "- **text** - ...": a bullet that starts with a name
NameBullet(text, phones, urls) ==
    Line("bullet", text, <<>>, phones, <<>>, urls, "", {})

\* "## text"
H2(text) ==
    Line("h2", text, <<>>, <<>>, <<>>, <<>>, "",
         IF text = "Complete Phone Directory" THEN {text} ELSE {})

\* "### text"
H3(text) == Line("h3", text, <<>>, <<>>, <<>>, <<>>, "", {})

\* "| c1 | c2 | ... |": a table row; phones are the numbers its text holds
Row(cells, phones, marks) == Line("row", "", cells, phones, <<>>, <<>>, "", marks)

\* "|---|---|": the separator row of a table
SepRow == Line("row", "", <<"---", "---">>, <<>>, <<>>, <<>>, "", {"---"})

\* "---": a horizontal rule
Rule == Line("rule", "", <<>>, <<>>, <<>>, <<>>, "", {"---"})

\* any other line
TextLine(phones, emails, urls, address) ==
    Line("text", "", <<>>, phones, emails, urls, address, {})

\* line.startswith("|")
StartsWithPipe(ln) == ln.kind = "row"

\* word in line
HasWord(ln, word) == word \in ln.marks

\* [p.strip().strip("*") for p in line.split("|")[1:-1]]: the cells are kept
\* stripped in the line
Parts(ln) == ln.cells

\* f"({a}) {b}-{c}" for a match (a, b, c) of \((\d{3})\)\s*(\d{3})-(\d{4})
FormatPhone(m) == "(" \o m[1] \o ") " \o m[2] \o "-" \o m[3]

\* the concatenation of a sequence of sequences
RECURSIVE Flatten(_)
Flatten(ss) == IF ss = <<>> THEN <<>> ELSE Head(ss) \o Flatten(Tail(ss))

\* xs[0] if xs else ""
FirstOrEmpty(xs) == IF xs # <<>> THEN xs[1] ELSE ""

----------------------------------------------------------------------------
(* The flat extractor: the body of _load_directory *)

\* the first loop: rows after a line that mentions the phone-directory heading
RECURSIVE FlatTableFrom(_, _, _)
FlatTableFrom(doc, i, in_phone_table) ==
    IF i > Len(doc) THEN <<>>
    ELSE IF HasWord(doc[i], "Complete Phone Directory")
         THEN FlatTableFrom(doc, i + 1, TRUE)
         ELSE IF /\ in_phone_table
                 /\ StartsWithPipe(doc[i])
                 /\ ~HasWord(doc[i], "---")
                 /\ ~HasWord(doc[i], "Department")
                 /\ Len(Parts(doc[i])) >= 2
              THEN <<[name |-> Parts(doc[i])[1], phone |-> Parts(doc[i])[2]]>>
                   \o FlatTableFrom(doc, i + 1, in_phone_table)
              ELSE FlatTableFrom(doc, i + 1, in_phone_table)

\* the end of the block that the heading at line i opens: the line before the
\* next line starting with "###" or "---", or the last line
SectionEnd(doc, i) ==
    LET stops == {j \in (i + 1)..Len(doc) : doc[j].kind \in {"h3", "rule"}}
    IN  IF stops = {} THEN Len(doc)
        ELSE (CHOOSE j \in stops : \A k \in stops : j <= k) - 1

\* re.findall(r'### (.+?)(?=\n###|\n---|\Z)', text, re.DOTALL): the blocks, as
\* pairs of first line and last line
Sections(doc) ==
    LET starts == {i \in DOMAIN doc : doc[i].kind = "h3"}
        nth[k \in 0..Cardinality(starts)] ==
            IF k = 0 THEN 0
            ELSE CHOOSE i \in starts : i > nth[k - 1]
                     /\ \A j \in starts : j > nth[k - 1] => i <= j
    IN  [k \in 1..Cardinality(starts) |-> <<nth[k], SectionEnd(doc, nth[k])>>]

\* a heading pass without the test for an identical (name, phone) pair
RECURSIVE SectionEntriesKeepAll(_, _, _, _, _)
SectionEntriesKeepAll(acc, title, phones, email, url) ==
    IF phones = <<>> THEN acc
    ELSE SectionEntriesKeepAll(
             Append(acc, [name |-> title, phone |-> FormatPhone(Head(phones)),
                          email |-> email, url |-> url]),
             title, Tail(phones), email, url)

\* the entries one block appends, given the entries so far
RECURSIVE SectionEntries(_, _, _, _, _)
SectionEntries(acc, title, phones, email, url) ==
    IF phones = <<>> THEN acc
    ELSE LET ph == FormatPhone(Head(phones))
             dup == \E k \in DOMAIN acc : acc[k]["phone"] = ph /\ acc[k]["name"] = title
         IN  SectionEntries(
                 IF dup THEN acc
                 ELSE Append(acc, [name |-> title, phone |-> ph, email |-> email, url |-> url]),
                 title, Tail(phones), email, url)

\* the second loop, over the blocks
RECURSIVE FlatSectionsFrom(_, _, _)
FlatSectionsFrom(doc, k, acc) ==
    IF k > Len(Sections(doc)) THEN acc
    ELSE LET first == Sections(doc)[k][1]
             stop == Sections(doc)[k][2]
             body == SubSeq(doc, first + 1, stop)
             phones == Flatten([j \in DOMAIN body |-> body[j].phones])
             emails == Flatten([j \in DOMAIN body |-> body[j].emails])
             urls == Flatten([j \in DOMAIN body |-> body[j].urls])
         IN  FlatSectionsFrom(doc, k + 1,
                 SectionEntries(acc, doc[first].text, phones,
                                FirstOrEmpty(emails), FirstOrEmpty(urls)))

\* the list entries that _load_directory builds from the text
ParseFlat(doc) == FlatSectionsFrom(doc, 1, FlatTableFrom(doc, 1, FALSE))

----------------------------------------------------------------------------
(* The categorized extractor: the body of _load_directory_by_category.     *)
(* The dict categories is a sequence of <<name, entries>> pairs in         *)
(* insertion order; current_category = None is the string "None".          *)

SKIP_SECTIONS_None == {}

SKIP_SECTIONS_Off == {"Table of Contents", "Overview & Main Sites"}

SKIP_SECTIONS == {"Table of Contents", "Overview & Main Sites", "Complete Phone Directory"}

BCC == "Board of County Commissioners"

\* the position of key name in the dict, 0 when absent
KeyIndex(cats, name) ==
    IF \E i \in DOMAIN cats : cats[i][1] = name
    THEN CHOOSE i \in DOMAIN cats : cats[i][1] = name
    ELSE 0

\* categories.get(name) or []
EntriesOf(cats, name) ==
    IF KeyIndex(cats, name) = 0 THEN <<>> ELSE cats[KeyIndex(cats, name)][2]

\* categories[name].append(e)
AppendEntry(cats, name, e) ==
    [cats EXCEPT ![KeyIndex(cats, name)][2] = Append(@, e)]

\* {"name": name, "phone": "", "email": "", "url": "", "address": ""}
BareEntry(name) == [name |-> name, phone |-> "", email |-> "", url |-> "", address |-> ""]

EnrichOverwrite(entry, ln) ==
    [entry EXCEPT
        !["phone"] = IF ln.phones # <<>> THEN FormatPhone(ln.phones[1]) ELSE @,
        !["email"] = IF ln.emails # <<>> THEN ln.emails[1] ELSE @,
        !["url"] = IF ln.urls # <<>> THEN ln.urls[1] ELSE @,
        !["address"] = IF ln.address # "" THEN ln.address ELSE @]

\* the four assignments that fill the empty fields of the current entry
Enrich(entry, ln) ==
    [entry EXCEPT
        !["phone"] = IF ln.phones # <<>> /\ @ = "" THEN FormatPhone(ln.phones[1]) ELSE @,
        !["email"] = IF ln.emails # <<>> /\ @ = "" THEN ln.emails[1] ELSE @,
        !["url"] = IF ln.urls # <<>> /\ @ = "" THEN ln.urls[1] ELSE @,
        !["address"] = IF ln.address # "" /\ @ = "" THEN ln.address ELSE @]

\* one iteration of the scan loop; the name of a commissioners row is
\* f"{parts[0]} <em dash> {parts[1]}", the dash written here as ASCII "-"
ScanLine(st, ln) ==
    LET cats == st.categories
        cur == st.current_category
        active == cur # "None" /\ cur # ""
    IN  IF ln.kind = "h2"
        THEN IF ln.text \in SKIP_SECTIONS
             THEN [st EXCEPT !.current_category = "None"]
             ELSE [categories |-> IF KeyIndex(cats, ln.text) = 0
                                  THEN Append(cats, <<ln.text, <<>>>>)
                                  ELSE cats,
                   current_category |-> ln.text]
        ELSE IF ln.kind = "h3" /\ active
        THEN [st EXCEPT !.categories = AppendEntry(cats, cur, BareEntry(ln.text))]
        ELSE IF /\ cur = BCC
                /\ StartsWithPipe(ln)
                /\ ~HasWord(ln, "---")
                /\ ~HasWord(ln, "Position")
        THEN IF Len(Parts(ln)) >= 2 /\ Parts(ln)[2] # ""
             THEN [st EXCEPT !.categories =
                      AppendEntry(cats, cur,
                                  BareEntry(Parts(ln)[1] \o " - " \o Parts(ln)[2]))]
             ELSE st
        ELSE IF active /\ EntriesOf(cats, cur) # <<>>
        THEN LET k == KeyIndex(cats, cur)
                 n == Len(cats[k][2])
             IN  [st EXCEPT !.categories[k][2][n] = Enrich(@, ln)]
        ELSE st

RECURSIVE ScanFrom(_, _, _)
ScanFrom(doc, i, st) ==
    IF i > Len(doc) THEN st ELSE ScanFrom(doc, i + 1, ScanLine(st, doc[i]))

\* categories after the scan loop
PrimaryScan(doc) ==
    ScanFrom(doc, 1, [categories |-> <<>>, current_category |-> "None"]).categories

\* re.search(rf'^## {name}\s*\n(.*?)(?=\n## |\Z)', text, DOTALL | MULTILINE):
\* the lines after the first "## name" heading up to the next "## " line; the
\* heading must be followed by a newline.  <<>> stands for no match as well
\* as for an empty block: both add no entry.
Block(doc, name) ==
    LET heads == {i \in 1..(Len(doc) - 1) : doc[i].kind = "h2" /\ doc[i].text = name}
    IN  IF heads = {} THEN <<>>
        ELSE LET h == CHOOSE i \in heads : \A j \in heads : i <= j
                 nexts == {j \in (h + 1)..Len(doc) : doc[j].kind = "h2"}
                 stop == IF nexts = {} THEN Len(doc)
                         ELSE (CHOOSE j \in nexts : \A k \in nexts : j <= k) - 1
             IN  SubSeq(doc, h + 1, stop)

\* the phone the post-pass takes from a line
LinePhone(ln) == IF ln.phones # <<>> THEN FormatPhone(ln.phones[1]) ELSE ""

\* the entries the post-pass takes from one line of a block
PostPassLine(bline) ==
    IF bline.kind = "link"
    THEN <<[name |-> bline.text, phone |-> LinePhone(bline), email |-> "",
            url |-> bline.urls[1], address |-> ""]>>
    ELSE IF /\ StartsWithPipe(bline)
            /\ ~HasWord(bline, "---")
            /\ ~HasWord(bline, "Name")
            /\ ~HasWord(bline, "Site")
    THEN IF Len(Parts(bline)) >= 1 /\ Parts(bline)[1] # ""
         THEN <<[name |-> Parts(bline)[1], phone |-> LinePhone(bline), email |-> "",
                 url |-> FirstOrEmpty(bline.urls), address |-> ""]>>
         ELSE <<>>
    ELSE IF bline.kind = "bullet"
    THEN <<[name |-> bline.text, phone |-> LinePhone(bline), email |-> "",
            url |-> FirstOrEmpty(bline.urls), address |-> ""]>>
    ELSE <<>>

PostPassAll(doc, cats) ==
    [k \in DOMAIN cats |->
        LET block == Block(doc, cats[k][1])
        IN  <<cats[k][1],
              cats[k][2] \o Flatten([j \in DOMAIN block |-> PostPassLine(block[j])])>>]

\* the re-parse of the categories the scan left empty
PostPass(doc, cats) ==
    [k \in DOMAIN cats |->
        IF cats[k][2] # <<>> THEN cats[k]
        ELSE LET block == Block(doc, cats[k][1])
             IN  <<cats[k][1], Flatten([j \in DOMAIN block |-> PostPassLine(block[j])])>>]

\* one row of the phone-directory section
PhoneDirLine(pline) ==
    IF /\ StartsWithPipe(pline)
       /\ ~HasWord(pline, "---")
       /\ ~HasWord(pline, "Department")
       /\ Len(Parts(pline)) >= 2
       /\ Parts(pline)[1] # ""
    THEN <<[name |-> Parts(pline)[1], phone |-> Parts(pline)[2], email |-> "",
            url |-> "", address |-> ""]>>
    ELSE <<>>

AddPhoneDirectoryFirst(doc, cats) ==
    LET block == Block(doc, "Complete Phone Directory")
        phone_entries == Flatten([j \in DOMAIN block |-> PhoneDirLine(block[j])])
    IN  IF phone_entries = <<>> THEN cats
        ELSE <<<<"Complete Phone Directory", phone_entries>>>> \o cats

\* the synthetic "Complete Phone Directory" category, added when not empty
AddPhoneDirectory(doc, cats) ==
    LET block == Block(doc, "Complete Phone Directory")
        phone_entries == Flatten([j \in DOMAIN block |-> PhoneDirLine(block[j])])
    IN  IF phone_entries = <<>> THEN cats
        ELSE IF KeyIndex(cats, "Complete Phone Directory") = 0
             THEN Append(cats, <<"Complete Phone Directory", phone_entries>>)
             ELSE [cats EXCEPT ![KeyIndex(cats, "Complete Phone Directory")][2] = phone_entries]

DropEmptyOff(cats) == cats

\* {k: v for k, v in categories.items() if v}
DropEmpty(cats) == SelectSeq(cats, LAMBDA c : c[2] # <<>>)

\* the dict categories that _load_directory_by_category builds from the text
ParseCategorized(doc) ==
    DropEmpty(AddPhoneDirectory(doc, PostPass(doc, PrimaryScan(doc))))

----------------------------------------------------------------------------
(* The result cache: the head and the tail of both loaders *)

\* the freshness window in seconds: time.time() - st_mtime < 86400
TTL == 86400

Kinds == {"flat", "categorized"}

\* cache_path does not exist
NoFile == [exists |-> FALSE, mtime |-> 0, content |-> [valid |-> FALSE, data |-> <<>>]]

\* the body of the loader of a kind, run on the text of DIRECTORY.md
Extract(kind, doc) == IF kind = "flat" THEN ParseFlat(doc) ELSE ParseCategorized(doc)

EmptyResultOff(kind) == <<"stale">>

\* what a loader returns when DIRECTORY.md does not exist: [] or {}
EmptyResult(kind) == <<>>

DumpsOff(payload) == [valid |-> TRUE, data |-> <<>>]

\* json_mod.dumps(payload): text that json_mod.loads reads back as payload
Dumps(payload) == [valid |-> TRUE, data |-> payload]

\* cache_path.exists() and (time.time() - cache_path.stat().st_mtime < 86400)
FreshOff(file, t) == file.exists /\ t - file.mtime <= TTL

Fresh(file, t) == file.exists /\ t - file.mtime < TTL

\* cache_path.write_text(text) inside try/except: open(.., "w") truncates the
\* file and the text is written after; a refused open leaves the file as it
\* was, a write that fails after the open leaves it truncated
WriteText(file, text, t, d) ==
    CASE d = "ok" -> [exists |-> TRUE, mtime |-> t, content |-> text]
      [] d = "denied" -> file
      [] d = "full" -> [exists |-> TRUE, mtime |-> t,
                        content |-> [valid |-> FALSE, data |-> <<>>]]

\* a loader that stores the empty result when the source is missing
LoadStoresEmpty(kind, file, src, t, d) ==
    IF Fresh(file, t)
    THEN IF file.content.valid
         THEN [outcome |-> "returned", value |-> file.content.data, built |-> FALSE,
               file |-> file]
         ELSE [outcome |-> "raised", value |-> <<>>, built |-> FALSE, file |-> file]
    ELSE IF ~src.exists
         THEN [outcome |-> "returned", value |-> EmptyResult(kind), built |-> FALSE,
               file |-> WriteText(file, Dumps(EmptyResult(kind)), t, d)]
         ELSE [outcome |-> "returned", value |-> Extract(kind, src.text),
               built |-> TRUE,
               file |-> WriteText(file, Dumps(Extract(kind, src.text)), t, d)]

LoadNoReuse(kind, file, src, t, d) ==
    IF ~src.exists
    THEN [outcome |-> "returned", value |-> EmptyResult(kind), built |-> FALSE,
          file |-> file]
    ELSE [outcome |-> "returned", value |-> Extract(kind, src.text), built |-> TRUE,
          file |-> WriteText(file, Dumps(Extract(kind, src.text)), t, d)]

\* _load_directory / _load_directory_by_category: a fresh cache file is read and
\* parsed with json_mod.loads, which raises on text that is not JSON; otherwise
\* the text of DIRECTORY.md is parsed, written to the cache file and returned
Load(kind, file, src, t, d) ==
    IF Fresh(file, t)
    THEN IF file.content.valid
         THEN [outcome |-> "returned", value |-> file.content.data, built |-> FALSE,
               file |-> file]
         ELSE [outcome |-> "raised", value |-> <<>>, built |-> FALSE, file |-> file]
    ELSE IF ~src.exists
         THEN [outcome |-> "returned", value |-> EmptyResult(kind), built |-> FALSE,
               file |-> file]
         ELSE [outcome |-> "returned", value |-> Extract(kind, src.text),
               built |-> TRUE,
               file |-> WriteText(file, Dumps(Extract(kind, src.text)), t, d)]

\* two states of DIRECTORY.md
DocA ==
    << H2("Utilities"),
       H3("Solid Waste"),
       TextLine(<< <<"407", "836", "6601">> >>, <<"waste@ocfl.net">>, <<>>, ""),
       H2("Complete Phone Directory"),
       Row(<<"Department", "Phone">>, <<>>, {"Department"}),
       SepRow,
       Row(<<"Fire Rescue", "(407) 836-9000">>, << <<"407", "836", "9000">> >>, {}) >>

DocB ==
    << H2("Utilities"),
       H3("Solid Waste"),
       TextLine(<< <<"407", "836", "6601">> >>, <<>>, <<>>, "201 S Rosalind Ave"),
       Rule,
       H2("Complete Phone Directory"),
       Row(<<"Department", "Phone">>, <<>>, {"Department"}),
       SepRow,
       Row(<<"Fire Rescue", "(407) 836-9111">>, << <<"407", "836", "9111">> >>, {}) >>

Sources == {[exists |-> FALSE, text |-> <<>>]}
           \cup {[exists |-> TRUE, text |-> d] : d \in {DocA, DocB}}

DiskStates == {"ok", "denied", "full"}

\* the clock steps: one second, and one second less than the window
TickSteps == {1, TTL - 1}

\* no categorized scan is in progress
NoScan == [i |-> 0, categories |-> <<>>, current_category |-> "None"]

\* no concurrent invocation is running
NoProc == <<>>

\* no wizard session
NoWiz == [sent |-> <<>>, response |-> <<>>]

NoCall == [kind |-> "none", at |-> 0, src |-> [exists |-> FALSE, text |-> <<>>],
           disk |-> "ok", before |-> NoFile, outcome |-> "none", value |-> <<>>,
           built |-> FALSE, after |-> NoFile]

CacheInit ==
    /\ entries = <<>>
    /\ query = <<>>
    /\ fuzzRatio = <<>>
    /\ jsonOpt = FALSE
    /\ ret = "none"
    /\ out = "none"
    /\ nCompile = 0
    /\ pc = "start"
    /\ now = 0
    /\ ticks = 0
    /\ source \in Sources
    /\ cacheFile = [k \in Kinds |-> NoFile]
    /\ disk \in DiskStates
    /\ lastCall = NoCall
    /\ scan = NoScan
    /\ proc = NoProc
    /\ wiz = NoWiz

\* one call of the loader of a kind
CallLoader(kind) ==
    LET r == Load(kind, cacheFile[kind], source, now, disk)
    IN  /\ cacheFile' = [cacheFile EXCEPT ![kind] = r.file]
        /\ lastCall' = [kind |-> kind, at |-> now, src |-> source, disk |-> disk,
                        before |-> cacheFile[kind], outcome |-> r.outcome,
                        value |-> r.value, built |-> r.built, after |-> r.file]
        /\ UNCHANGED <<now, ticks, source, disk>>
        /\ UNCHANGED searchVars
        /\ UNCHANGED stepVars

LoadDirectory == CallLoader("flat")

LoadDirectoryByCategory == CallLoader("categorized")

\* time passes
Tick ==
    /\ ticks < MaxTicks
    /\ \E d \in TickSteps : now' = now + d
    /\ ticks' = ticks + 1
    /\ UNCHANGED <<source, cacheFile, disk, lastCall>>
    /\ UNCHANGED searchVars
    /\ UNCHANGED stepVars

\* DIRECTORY.md is edited, removed or restored
ChangeSource ==
    /\ \E s \in Sources : s # source /\ source' = s
    /\ UNCHANGED <<now, ticks, cacheFile, disk, lastCall>>
    /\ UNCHANGED searchVars
    /\ UNCHANGED stepVars

\* the cache directory becomes writable, read-only or full
ChangeDisk ==
    /\ \E d \in DiskStates : d # disk /\ disk' = d
    /\ UNCHANGED <<now, ticks, source, cacheFile, lastCall>>
    /\ UNCHANGED searchVars
    /\ UNCHANGED stepVars

CacheNext ==
    \/ LoadDirectory
    \/ LoadDirectoryByCategory
    \/ Tick
    \/ ChangeSource
    \/ ChangeDisk

SpecCache == CacheInit /\ [][CacheNext]_vars

----------------------------------------------------------------------------
(* Inputs of the search functions *)

\* the shapes of entry the loaders return: a phone-table row of the flat view
\* (name, phone), a heading entry of the flat view (email and url too), and a
\* categorized entry (address too)
EntryPool ==
    { [name |-> <<"a">>, phone |-> <<"4">>],
      [name |-> <<"a">>, phone |-> <<"4">>, email |-> <<"b">>, url |-> <<>>],
      [name |-> <<"B", " ", "a", "B">>, phone |-> <<>>, email |-> <<>>, url |-> <<>>,
       address |-> <<"b", "b">>] }

QueryChars == {"A", "b", " "}

PatternChars == {"a", "B", ".", "("}

\* results of token_set_ratio the oracle ranges over: scores 39.9 and 70
RatioValues == {57, 100}

LowerNames == {Lower(e["name"]) : e \in EntryPool}

\* the list pattern repeated cyclically to length n
Repeat(pattern, n) == [i \in 1..n |-> pattern[((i - 1) % Len(pattern)) + 1]]

\* the list pattern followed by copies of its last element, to length n
Padded(pattern, n) == [i \in 1..n |-> pattern[Min(i, Len(pattern))]]

\* the arrangements the long lists are built from: one slot per pool entry
LongPatterns == [1..Cardinality(EntryPool) -> EntryPool]

\* short lists exhaustively, and lists longer than the result cap
EntryLists ==
    StrsUpTo(EntryPool, MaxLen)
    \cup {Repeat(p, MaxResults + MaxOver) : p \in LongPatterns}
    \cup {Padded(p, MaxResults + MaxOver) : p \in LongPatterns}

\* the words joined by single spaces
RECURSIVE JoinTokens(_)
JoinTokens(ts) ==
    IF ts = <<>> THEN <<>>
    ELSE IF Len(ts) = 1 THEN ts[1]
    ELSE ts[1] \o <<" ">> \o JoinTokens(Tail(ts))

\* queries of MaxTokens words, a word possibly repeated
TokenQueries == {JoinTokens(ts) : ts \in [1..MaxTokens -> {<<"A">>, <<"b">>}]}

\* short queries exhaustively, and queries of several words
Queries == StrsUpTo(QueryChars, MaxQueryLen) \cup TokenQueries

SearchInit ==
    /\ entries \in EntryLists
    /\ query \in Queries
    /\ fuzzRatio \in [LowerNames -> RatioValues]
    /\ jsonOpt = FALSE
    /\ ret = "none"
    /\ out = "none"
    /\ nCompile = 0
    /\ pc = "start"
    /\ now = 0
    /\ ticks = 0
    /\ source = [exists |-> FALSE, text |-> <<>>]
    /\ cacheFile = [k \in Kinds |-> NoFile]
    /\ disk = "ok"
    /\ lastCall = NoCall
    /\ scan = NoScan
    /\ proc = NoProc
    /\ wiz = NoWiz

\* a call of _fuzzy_search(entries, query)
CallFuzzySearch ==
    /\ pc = "start"
    /\ ret' = FuzzySearch(entries, query)
    /\ pc' = "fuzzy"
    /\ UNCHANGED <<entries, query, fuzzRatio, jsonOpt, out, nCompile>>
    /\ UNCHANGED cacheVars
    /\ UNCHANGED stepVars

SearchNext == CallFuzzySearch

SpecSearch == SearchInit /\ [][SearchNext]_vars

RegexInit ==
    /\ entries \in EntryLists
    /\ query \in StrsUpTo(PatternChars, MaxPatternLen)
    /\ fuzzRatio = [n \in LowerNames |-> 0]
    /\ jsonOpt \in BOOLEAN
    /\ ret = "none"
    /\ out = "none"
    /\ nCompile = 0
    /\ pc = "start"
    /\ now = 0
    /\ ticks = 0
    /\ source = [exists |-> FALSE, text |-> <<>>]
    /\ cacheFile = [k \in Kinds |-> NoFile]
    /\ disk = "ok"
    /\ lastCall = NoCall
    /\ scan = NoScan
    /\ proc = NoProc
    /\ wiz = NoWiz

\* a call of _regex_search(entries, pattern)
CallRegexSearch ==
    /\ pc = "start"
    /\ ret' = RegexSearch(entries, query)
    /\ nCompile' = nCompile + 1
    /\ pc' = "regex"
    /\ UNCHANGED <<entries, query, fuzzRatio, jsonOpt, out>>
    /\ UNCHANGED cacheVars
    /\ UNCHANGED stepVars

\* the columns the regex command's table shows for one entry
TableRow(e) == <<e["name"], Get(e, "phone"), Get(e, "email"), Get(e, "url")>>

\* what directory_regex_cmd prints, given the outcome of _regex_search
RegexCmdOutput(r, json) ==
    IF ~IsNone(r.err) /\ r.err # <<>>
    THEN [kind |-> "error", text |-> <<"Invalid regex: ">> \o r.err]
    ELSE IF json
         THEN [kind |-> "json", results |-> r.results]
         ELSE IF r.results = <<>>
              THEN [kind |-> "no results"]
              ELSE [kind |-> "table",
                    rows |-> [i \in 1..Len(r.results) |-> TableRow(r.results[i])]]

\* the command `ocfl directory regex <pattern>`, entries being what
\* _load_directory() returned
DirectoryRegexCmd ==
    /\ pc = "start"
    /\ ret' = RegexSearch(entries, query)
    /\ nCompile' = nCompile + 1
    /\ out' = RegexCmdOutput(ret', jsonOpt)
    /\ pc' = "regex_cmd"
    /\ UNCHANGED <<entries, query, fuzzRatio, jsonOpt>>
    /\ UNCHANGED cacheVars
    /\ UNCHANGED stepVars

RegexNext == CallRegexSearch \/ DirectoryRegexCmd

SpecRegex == RegexInit /\ [][RegexNext]_vars

----------------------------------------------------------------------------
(* Properties of _fuzzy_search *)

FuzzyDone == pc = "fuzzy"

\* the positions of entries that _fuzzy_search scores as candidates
CandidateIdx == {i \in DOMAIN entries :
                    \/ Contains(Lower(entries[i]["name"]), Lower(query))
                    \/ BestScore(entries[i], query) > 40 * ScoreScale(query)}

RECURSIVE ScoresFrom(_)
ScoresFrom(i) ==
    IF i > Len(entries) THEN <<>>
    ELSE <<EntryScore(entries[i], query)>> \o ScoresFrom(i + 1)

\* the score of every input entry
ScoreAt == ScoresFrom(1)

\* C1: for every list of entries and every query, _fuzzy_search returns at
\* most 15 entries.
C1_AtMost15 == FuzzyDone => Len(ret) <= 15

\* more than 15 entries qualified and exactly 15 were returned
C1_Witness == FuzzyDone /\ Cardinality(CandidateIdx) > 15 /\ Len(ret) = 15

\* C2: an entry whose lowercased name contains the lowercased query scores 100,
\* more than any entry matched through the other signals, comes before every
\* returned entry whose name does not contain the query, and is the first
\* result whenever some entry name contains the query.
C2_SubstringFirst ==
    FuzzyDone =>
        /\ \A k \in DOMAIN entries :
              IF Contains(Lower(entries[k]["name"]), Lower(query))
              THEN EntryScore(entries[k], query) = 100 * ScoreScale(query)
              ELSE EntryScore(entries[k], query) < 100 * ScoreScale(query)
        /\ \A i, j \in DOMAIN ret :
              /\ Contains(Lower(ret[j]["name"]), Lower(query))
              /\ ~Contains(Lower(ret[i]["name"]), Lower(query))
              => j < i
        /\ (\E k \in DOMAIN entries : Contains(Lower(entries[k]["name"]), Lower(query)))
              => /\ Len(ret) > 0
                 /\ Contains(Lower(ret[1]["name"]), Lower(query))

\* a name-substring match placed after a token/field match in the input comes
\* out first, with the other match still returned
C2_Witness ==
    /\ FuzzyDone
    /\ Len(entries) >= 2
    /\ ~Contains(Lower(entries[1]["name"]), Lower(query))
    /\ Contains(Lower(entries[2]["name"]), Lower(query))
    /\ Len(ret) >= 2
    /\ ret[1] = entries[2]
    /\ \E i \in DOMAIN ret : ret[i] = entries[1]

\* C3: an entry is returned only if its score is strictly greater than 40; an
\* entry whose best score is exactly 40 is never returned.
C3_StrictThreshold ==
    FuzzyDone =>
        /\ \A i \in DOMAIN ret : EntryScore(ret[i], query) > 40 * ScoreScale(query)
        /\ \A k \in DOMAIN entries :
              BestScore(entries[k], query) = 40 * ScoreScale(query)
              => \A i \in DOMAIN ret : ret[i] # entries[k]

\* half of the query tokens matched, no other signal above 40: left out, while
\* another entry is returned
C3_Witness ==
    /\ FuzzyDone
    /\ Len(ret) > 0
    /\ \E k \in DOMAIN entries :
          /\ TokenScore(entries[k], query) = 40 * ScoreScale(query)
          /\ BestScore(entries[k], query) = 40 * ScoreScale(query)
          /\ \A i \in DOMAIN ret : ret[i] # entries[k]

\* the rank of candidate i among the candidates cand with scores sc, ordered by
\* descending score and, among equal scores, by position in the input
RankOf(i, cand, sc) ==
    1 + Cardinality({j \in cand : sc[j] > sc[i] \/ (sc[j] = sc[i] /\ j < i)})

RECURSIVE RanksFrom(_, _, _)
RanksFrom(i, cand, sc) ==
    IF i > Len(sc) THEN <<>>
    ELSE <<IF i \in cand THEN RankOf(i, cand, sc) ELSE 0>> \o RanksFrom(i + 1, cand, sc)

\* C4: the result is sorted by non-increasing score, entries of equal score
\* keep their input order, and the truncation keeps the first 15 of that order.
C4_StableSortedTruncated ==
    FuzzyDone =>
        LET cand == CandidateIdx
            sc == ScoreAt
            rank == RanksFrom(1, cand, sc)
        IN  /\ Len(ret) = Min(15, Cardinality(cand))
            /\ \A i \in cand : rank[i] <= 15 => ret[rank[i]] = entries[i]
            /\ \A i, j \in cand :
                  (rank[i] < rank[j] /\ rank[j] <= 15) => sc[i] >= sc[j]

\* two different entries tie and are both returned, a higher-scored entry
\* follows them in the input, and the result is cut at 15
C4_Witness ==
    /\ FuzzyDone
    /\ Cardinality(CandidateIdx) > 15
    /\ entries[1] # entries[2]
    /\ LET sc == ScoreAt
       IN  /\ sc[1] = sc[2]
           /\ sc[3] > sc[2]
           /\ ret[6] = entries[1]
           /\ ret[7] = entries[2]

----------------------------------------------------------------------------
(* Properties of _regex_search and the regex command *)

\* the pattern has a group that is never closed
Unterminated == \E i \in DOMAIN query : query[i] = "("

\* name, phone, email, url and address joined by single spaces, an absent
\* field being empty
JoinedText(e) ==
    LET f(k) == IF k \in DOMAIN e THEN e[k] ELSE <<>>
    IN  f("name") \o <<" ">> \o f("phone") \o <<" ">> \o f("email") \o <<" ">>
            \o f("url") \o <<" ">> \o f("address")

\* the pattern (literals and ".") occurs in the text, letter case ignored
MatchesIgnoringCase(pattern, text) ==
    \E i \in 0..(Len(text) - Len(pattern)) :
        \A j \in 1..Len(pattern) :
            pattern[j] = "." \/ Lower(pattern)[j] = Lower(text)[i + j]

MatchIdx == {i \in DOMAIN entries : MatchesIgnoringCase(query, JoinedText(entries[i]))}

\* C5: for a pattern that compiles, _regex_search returns exactly the entries
\* whose joined text matches case-insensitively, in input order, uncapped.
C5_RegexExactFilter ==
    (pc = "regex" /\ ~Unterminated) =>
        /\ IsNone(ret.err)
        /\ Len(ret.results) = Cardinality(MatchIdx)
        /\ \A i \in MatchIdx :
              ret.results[1 + Cardinality({j \in MatchIdx : j < i})] = entries[i]

\* more than 15 entries match, through the address field alone, and some entry
\* does not
C5_Witness ==
    /\ pc = "regex"
    /\ ~Unterminated
    /\ Len(ret.results) > 15
    /\ Len(ret.results) < Len(entries)
    /\ query = <<"B", "B">>

\* C6: when the pattern does not compile, _regex_search returns the compiler's
\* message and no result list; the regex command prints the error, produces no
\* results, and compiles the pattern once.
C6_InvalidPattern ==
    /\ (pc = "regex" /\ Unterminated) =>
          /\ IsNone(ret.results)
          /\ ret.err = ErrorMessage(query)
    /\ (pc = "regex_cmd" /\ Unterminated) =>
          /\ out.kind = "error"
          /\ out.text = <<"Invalid regex: ">> \o ErrorMessage(query)
          /\ nCompile = 1

C6_Witness ==
    /\ pc = "regex_cmd"
    /\ Unterminated
    /\ jsonOpt
    /\ Len(entries) > 0
    /\ out.kind = "error"

----------------------------------------------------------------------------
(* Properties of the result cache *)

\* this step is a call of a loader (every call changes lastCall, or repeats a
\* call already observed)
IsCall == lastCall' # lastCall

\* the cache file of kind k holds a record that is not expired and parses
ValidRecord(file, t) == file.exists /\ t - file.mtime < 86400 /\ file.content.valid

\* what parsing DIRECTORY.md afresh returns, the document being src
Uncached(k, src) ==
    IF ~src.exists THEN <<>>
    ELSE IF k = "flat" THEN ParseFlat(src.text) ELSE ParseCategorized(src.text)

\* C7: whenever a non-expired cache record of a kind exists, the loader returns
\* its payload without running the extractor and leaves the record alone; a
\* second call on the record the first call read or wrote returns the same
\* output.
C7_CacheHitIdempotent ==
    [][IsCall =>
         LET k == lastCall'.kind
         IN  ValidRecord(cacheFile[k], now) =>
                /\ lastCall'.outcome = "returned"
                /\ lastCall'.value = cacheFile[k].content.data
                /\ ~lastCall'.built
                /\ cacheFile' = cacheFile
                /\ (lastCall.kind = k /\ lastCall.outcome = "returned"
                      /\ lastCall.after = cacheFile[k])
                   => lastCall'.value = lastCall.value]_vars

\* browseCategories served from a record written earlier, although the source
\* document has changed since and would parse to something else
C7_Witness ==
    /\ lastCall.kind = "categorized"
    /\ ValidRecord(lastCall.before, lastCall.at)
    /\ lastCall.at > lastCall.before.mtime
    /\ lastCall.outcome = "returned"
    /\ ~lastCall.built
    /\ lastCall.src.exists
    /\ lastCall.value # ParseCategorized(lastCall.src.text)
    /\ lastCall.value # <<>>

\* the call finds the source document, and no cache file or one aged 86400 s
\* or more
MissWithSource(k) ==
    /\ source.exists
    /\ ~cacheFile[k].exists \/ now - cacheFile[k].mtime >= 86400

\* the call ran the extractor on the current text and returned its result
BuiltFresh(k) ==
    /\ lastCall'.outcome = "returned"
    /\ lastCall'.built
    /\ lastCall'.value = Uncached(k, source)

\* the record of kind k is now the new result stamped with the current time,
\* so that a call at this moment is a cache hit
Replaced(k) ==
    /\ cacheFile'[k] = [exists |-> TRUE, mtime |-> now,
                        content |-> [valid |-> TRUE, data |-> Uncached(k, source)]]
    /\ ValidRecord(cacheFile'[k], now')

\* C8 as claimed: on a miss with the source present the extractor runs, the
\* record is replaced and the next call is a hit.
C8_AsClaimed ==
    [][IsCall =>
         LET k == lastCall'.kind
         IN  MissWithSource(k) => BuiltFresh(k) /\ Replaced(k)]_vars

\* C8 amended: on a miss with the source present the extractor runs on the
\* current text and its result is returned; when the write of the cache file
\* succeeds the record is replaced by the new result stamped with the current
\* time and a call that immediately follows is a cache hit.
C8_MissRebuilds ==
    [][IsCall =>
         LET k == lastCall'.kind
         IN  MissWithSource(k) =>
                /\ BuiltFresh(k)
                /\ disk = "ok" => Replaced(k)]_vars

\* a record aged exactly 86400 s is rebuilt from an edited source and replaced
C8_Witness ==
    /\ lastCall.kind \in Kinds
    /\ lastCall.src.exists
    /\ lastCall.before.exists
    /\ lastCall.before.content.valid
    /\ lastCall.at - lastCall.before.mtime = 86400
    /\ lastCall.disk = "ok"
    /\ lastCall.built
    /\ lastCall.value # lastCall.before.content.data
    /\ lastCall.after.mtime = lastCall.at
    /\ lastCall.after.content = [valid |-> TRUE, data |-> lastCall.value]

\* C9: a cache file within the freshness window whose content does not parse
\* is ignored: the loader returns the fresh parse of the source and no error
\* reaches the caller.
C9_CorruptCacheIgnored ==
    [][IsCall =>
         LET k == lastCall'.kind
         IN  (/\ cacheFile[k].exists
              /\ now - cacheFile[k].mtime < 86400
              /\ ~cacheFile[k].content.valid)
             => /\ lastCall'.outcome = "returned"
                /\ lastCall'.value = Uncached(k, source)]_vars

\* C10: when the write of the cache file fails the loader still returns the
\* fresh parse, and every later call, while the file stays unwritable and holds
\* no valid record, returns what an uncached parse returns.
C10_UnwritableCacheTolerated ==
    [][IsCall =>
         LET k == lastCall'.kind
         IN  (disk # "ok" /\ ~ValidRecord(cacheFile[k], now))
             => /\ lastCall'.outcome = "returned"
                /\ lastCall'.value = Uncached(k, source)]_vars

\* C11 as claimed: whenever the source document does not exist, in every cache
\* state, the loader returns the empty result without raising.
C11_AsClaimed ==
    [][IsCall =>
         (~source.exists => /\ lastCall'.outcome = "returned"
                            /\ lastCall'.value = <<>>)]_vars

\* C11 amended: when the source document does not exist and the kind has no
\* cache file within the freshness window, the loader returns the empty result
\* without raising, runs no extractor and writes nothing, and a fuzzy search
\* over the result is empty for every query; when a record that is not expired
\* and parses exists, its payload is returned instead.
C11_MissingSourceEmpty ==
    [][IsCall =>
         LET k == lastCall'.kind
         IN  ~source.exists =>
                /\ ~Fresh(cacheFile[k], now) =>
                      /\ lastCall'.outcome = "returned"
                      /\ lastCall'.value = <<>>
                      /\ ~lastCall'.built
                      /\ cacheFile' = cacheFile
                      /\ \A q \in StrsUpTo(QueryChars, MaxQueryLen) :
                            FuzzySearch(lastCall'.value, q) = <<>>
                /\ ValidRecord(cacheFile[k], now) =>
                      /\ lastCall'.outcome = "returned"
                      /\ lastCall'.value = cacheFile[k].content.data]_vars

\* the source is gone and the record built from it has expired: empty result
C11_Witness ==
    /\ lastCall.kind \in Kinds
    /\ ~lastCall.src.exists
    /\ lastCall.before.exists
    /\ lastCall.before.content.valid
    /\ lastCall.before.content.data # <<>>
    /\ lastCall.at - lastCall.before.mtime >= 86400
    /\ lastCall.outcome = "returned"
    /\ lastCall.value = <<>>

----------------------------------------------------------------------------
(* Concurrent invocations of one loader on one cache file.  Every file     *)
(* system call of the loader is a step of its own; nothing is locked.      *)

Procs == {1, 2}

\* the locals of an invocation of the loader of a kind, before its first step
ProcStart(kind) ==
    [pc |-> "exists", kind |-> kind, text |-> [valid |-> FALSE, data |-> <<>>],
     result |-> <<>>, outcome |-> "none", value |-> <<>>]

\* the cache file as open(cache_path, "w") leaves it: empty, modified now
Truncated(t) == [exists |-> TRUE, mtime |-> t, content |-> [valid |-> FALSE, data |-> <<>>]]

\* a record written 86400 s or 1 s before the invocations start, by a call that
\* found the source document as it is now
OldRecords(kind, src) ==
    {[exists |-> TRUE, mtime |-> m,
      content |-> Dumps(IF src.exists THEN Extract(kind, src.text) ELSE EmptyResult(kind))] :
        m \in {0, TTL - 1}}

RaceInit ==
    /\ entries = <<>>
    /\ query = <<>>
    /\ fuzzRatio = <<>>
    /\ jsonOpt = FALSE
    /\ ret = "none"
    /\ out = "none"
    /\ nCompile = 0
    /\ pc = "start"
    /\ now = TTL
    /\ ticks = 0
    /\ source \in Sources
    /\ \E k \in Kinds :
          /\ proc = [p \in Procs |-> ProcStart(k)]
          /\ cacheFile \in {[j \in Kinds |-> IF j = k THEN f ELSE NoFile] :
                                f \in {NoFile} \cup OldRecords(k, source)}
    /\ disk = "ok"
    /\ lastCall = NoCall
    /\ scan = NoScan
    /\ wiz = NoWiz

\* cache_path.exists()
RaceExists(p) ==
    /\ proc[p].pc = "exists"
    /\ proc' = [proc EXCEPT ![p].pc =
                    IF cacheFile[proc[p].kind].exists THEN "stat" ELSE "source"]
    /\ UNCHANGED <<cacheFile, scan, wiz>>
    /\ UNCHANGED <<now, ticks, source, disk, lastCall>>
    /\ UNCHANGED searchVars

\* time.time() - cache_path.stat().st_mtime < 86400
RaceStat(p) ==
    /\ proc[p].pc = "stat"
    /\ proc' = [proc EXCEPT ![p].pc =
                    IF now - cacheFile[proc[p].kind].mtime < TTL THEN "read" ELSE "source"]
    /\ UNCHANGED <<cacheFile, scan, wiz>>
    /\ UNCHANGED <<now, ticks, source, disk, lastCall>>
    /\ UNCHANGED searchVars

\* cache_path.read_text()
RaceRead(p) ==
    /\ proc[p].pc = "read"
    /\ proc' = [proc EXCEPT ![p].pc = "loads",
                             ![p].text = cacheFile[proc[p].kind].content]
    /\ UNCHANGED <<cacheFile, scan, wiz>>
    /\ UNCHANGED <<now, ticks, source, disk, lastCall>>
    /\ UNCHANGED searchVars

\* return json_mod.loads(text): raises on text that is not JSON
RaceLoads(p) ==
    /\ proc[p].pc = "loads"
    /\ proc' = [proc EXCEPT ![p].pc = "done",
                             ![p].outcome = IF proc[p].text.valid THEN "returned" ELSE "raised",
                             ![p].value = IF proc[p].text.valid THEN proc[p].text.data ELSE <<>>]
    /\ UNCHANGED <<cacheFile, scan, wiz>>
    /\ UNCHANGED <<now, ticks, source, disk, lastCall>>
    /\ UNCHANGED searchVars

\* if not DIRECTORY_FILE.exists(): return empty; else read and parse the text
RaceSource(p) ==
    /\ proc[p].pc = "source"
    /\ proc' = IF source.exists
               THEN [proc EXCEPT ![p].pc = "open",
                                 ![p].result = Extract(proc[p].kind, source.text)]
               ELSE [proc EXCEPT ![p].pc = "done",
                                 ![p].outcome = "returned",
                                 ![p].value = EmptyResult(proc[p].kind)]
    /\ UNCHANGED <<cacheFile, scan, wiz>>
    /\ UNCHANGED <<now, ticks, source, disk, lastCall>>
    /\ UNCHANGED searchVars

\* cache_path.write_text(...), first half: open(cache_path, "w") truncates
RaceOpen(p) ==
    /\ proc[p].pc = "open"
    /\ cacheFile' = [cacheFile EXCEPT ![proc[p].kind] = Truncated(now)]
    /\ proc' = [proc EXCEPT ![p].pc = "write"]
    /\ UNCHANGED <<scan, wiz>>
    /\ UNCHANGED <<now, ticks, source, disk, lastCall>>
    /\ UNCHANGED searchVars

\* cache_path.write_text(...), second half: the text is written; return
RaceWrite(p) ==
    /\ proc[p].pc = "write"
    /\ cacheFile' = [cacheFile EXCEPT ![proc[p].kind] =
                         [exists |-> TRUE, mtime |-> now,
                          content |-> Dumps(proc[p].result)]]
    /\ proc' = [proc EXCEPT ![p].pc = "done",
                             ![p].outcome = "returned",
                             ![p].value = proc[p].result]
    /\ UNCHANGED <<scan, wiz>>
    /\ UNCHANGED <<now, ticks, source, disk, lastCall>>
    /\ UNCHANGED searchVars

RaceNext ==
    \E p \in Procs :
        \/ RaceExists(p)
        \/ RaceStat(p)
        \/ RaceRead(p)
        \/ RaceLoads(p)
        \/ RaceSource(p)
        \/ RaceOpen(p)
        \/ RaceWrite(p)

SpecRace == RaceInit /\ [][RaceNext]_vars

\* C12: in every interleaving of two invocations of one loader on one cache
\* file, every invocation that has finished returned, without error, the
\* extractor's output for the source document.
C12_RaceTolerated ==
    \A p \in DOMAIN proc :
        proc[p].pc = "done" =>
            /\ proc[p].outcome = "returned"
            /\ proc[p].value = Uncached(proc[p].kind, source)

----------------------------------------------------------------------------
(* The cache against the source document *)

\* C13 as claimed: the payload a call returns equals the extractor's output on
\* the content the source document has at the time of the call.
C13_AsClaimed ==
    [][IsCall =>
         (lastCall'.outcome = "returned"
            => lastCall'.value = Uncached(lastCall'.kind, source))]_vars

\* C13 amended: a call that finds no cache file within the freshness window
\* returns the extractor's output on the current content of the source; a call
\* served from the cache returns the payload of the record; and a record is
\* only ever written by a building call, stamped with the time of that call
\* and holding the extractor's output on the content the source had then.
C13_CacheServesRecord ==
    [][/\ IsCall =>
            LET k == lastCall'.kind
            IN  lastCall'.outcome = "returned" =>
                    IF Fresh(cacheFile[k], now)
                    THEN lastCall'.value = cacheFile[k].content.data
                    ELSE lastCall'.value = Uncached(k, source)
       /\ \A k \in Kinds :
            cacheFile'[k] # cacheFile[k] =>
                /\ IsCall
                /\ lastCall'.kind = k
                /\ lastCall'.built
                /\ cacheFile'[k].mtime = now
                /\ cacheFile'[k].content.valid
                      => cacheFile'[k].content.data = Uncached(k, source)]_vars

\* the flat loader serves, from the cache, the parse of an earlier content of
\* the source document that differs from the parse of the current content
C13_Witness ==
    /\ lastCall.kind = "flat"
    /\ lastCall.outcome = "returned"
    /\ ~lastCall.built
    /\ lastCall.src.exists
    /\ lastCall.value # ParseFlat(lastCall.src.text)
    /\ \E d \in {DocA, DocB} : lastCall.value = ParseFlat(d)

----------------------------------------------------------------------------
(* The extractors run on every short document.  The flat extractor is one  *)
(* step; the categorized extractor is run line by line through its scan    *)
(* loop and finished by its post-pass, phone-directory pass and filter.    *)

\* the lines documents are made of
DocLines ==
    { H2("Utilities"),
      H2("Table of Contents"),
      H2("Overview & Main Sites"),
      H2("Complete Phone Directory"),
      H2(BCC),
      H3("Solid Waste"),
      TextLine(<< <<"407", "836", "6601">> >>, <<"waste@ocfl.net">>, <<>>, ""),
      TextLine(<< <<"407", "254", "9660">> >>, <<>>, <<"https://ocfl.net/waste">>,
               "5901 Young Pine Rd"),
      Row(<<"Fire Rescue", "(407) 836-9000">>, << <<"407", "836", "9000">> >>, {}),
      Row(<<"", "(407) 836-3111">>, << <<"407", "836", "3111">> >>, {}),
      Row(<<"311 Help", "311">>, <<>>, {}),
      LinkBullet("Water", "https://ocfl.net/water", <<>>) }

Docs == StrsUpTo(DocLines, MaxDocLen)

ExtractInit ==
    /\ entries = <<>>
    /\ query = <<>>
    /\ fuzzRatio = <<>>
    /\ jsonOpt = FALSE
    /\ ret = "none"
    /\ out = "none"
    /\ nCompile = 0
    /\ pc = "start"
    /\ now = 0
    /\ ticks = 0
    /\ source \in {[exists |-> TRUE, text |-> d] : d \in Docs}
    /\ cacheFile = [k \in Kinds |-> NoFile]
    /\ disk = "ok"
    /\ lastCall = NoCall
    /\ scan = NoScan
    /\ proc = NoProc
    /\ wiz = NoWiz

\* the body of _load_directory on the text
RunFlatExtractor ==
    /\ pc = "start"
    /\ ret' = ParseFlat(source.text)
    /\ pc' = "flat"
    /\ UNCHANGED <<entries, query, fuzzRatio, jsonOpt, out, nCompile>>
    /\ UNCHANGED cacheVars
    /\ UNCHANGED stepVars

\* categories = {}; current_category = None; the scan loop is entered
StartScan ==
    /\ pc = "start"
    /\ scan' = [i |-> 1, categories |-> <<>>, current_category |-> "None"]
    /\ pc' = "scanning"
    /\ UNCHANGED <<entries, query, fuzzRatio, jsonOpt, ret, out, nCompile>>
    /\ UNCHANGED cacheVars
    /\ UNCHANGED <<proc, wiz>>

\* one iteration of for line in text.split("\n")
ScanStep ==
    /\ pc = "scanning"
    /\ scan.i <= Len(source.text)
    /\ LET st == ScanLine([categories |-> scan.categories,
                           current_category |-> scan.current_category],
                          source.text[scan.i])
       IN  scan' = [i |-> scan.i + 1, categories |-> st.categories,
                    current_category |-> st.current_category]
    /\ UNCHANGED searchVars
    /\ UNCHANGED cacheVars
    /\ UNCHANGED <<proc, wiz>>

\* after the loop: the post-pass, the phone-directory category, the filter
FinishCategorized ==
    /\ pc = "scanning"
    /\ scan.i > Len(source.text)
    /\ ret' = DropEmpty(AddPhoneDirectory(source.text,
                                          PostPass(source.text, scan.categories)))
    /\ pc' = "categorized"
    /\ UNCHANGED <<entries, query, fuzzRatio, jsonOpt, out, nCompile>>
    /\ UNCHANGED cacheVars
    /\ UNCHANGED stepVars

ExtractNext ==
    \/ RunFlatExtractor
    \/ StartScan
    \/ ScanStep
    \/ FinishCategorized

SpecExtract == ExtractInit /\ [][ExtractNext]_vars

\* the line-by-line run returns what ParseCategorized computes
StepwiseIsParseCategorized ==
    pc = "categorized" => ret = ParseCategorized(source.text)

----------------------------------------------------------------------------
(* Properties of the extractors' output *)

\* every entry of the categorized mapping m, in order
AllEntries(m) == Flatten([k \in DOMAIN m |-> m[k][2]])

\* C14: every entry produced by the flat extractor and every entry produced by
\* the categorized extractor has a non-empty name.
C14_NamesNonEmpty ==
    /\ pc = "flat" => \A i \in DOMAIN ret : ret[i]["name"] # ""
    /\ pc = "categorized" =>
          \A i \in DOMAIN AllEntries(ret) : AllEntries(ret)[i]["name"] # ""

\* the three-digit and four-digit groups that occur in the documents
Digits3 == {"407", "836", "254"}

Digits4 == {"6601", "9660", "9000", "3111"}

\* ph has the form (DDD) DDD-DDDD
IsFormattedPhone(ph) ==
    \E a \in Digits3, b \in Digits3, c \in Digits4 : ph = FormatPhone(<<a, b, c>>)

\* C15: in every entry of either view the phone field is empty or has the form
\* (DDD) DDD-DDDD, entries from phone-directory table rows included.
C15_PhonesFormatted ==
    /\ pc = "flat" =>
          \A i \in DOMAIN ret : ret[i]["phone"] = "" \/ IsFormattedPhone(ret[i]["phone"])
    /\ pc = "categorized" =>
          \A i \in DOMAIN AllEntries(ret) :
              \/ AllEntries(ret)[i]["phone"] = ""
              \/ IsFormattedPhone(AllEntries(ret)[i]["phone"])

\* the keys of the categorized mapping m, in order
Keys(m) == [k \in DOMAIN m |-> m[k][1]]

\* name is a key of the mapping m
HasKey(m, name) == \E k \in DOMAIN m : m[k][1] = name

\* C16: the mapping returned by a fresh run of the categorized extractor never
\* contains a category whose entry list is empty.
C16_NoEmptyCategory ==
    pc = "categorized" => \A k \in DOMAIN ret : ret[k][2] # <<>>

\* a category is still empty after the post-pass and is left out of the
\* result, which keeps another category
C16_Witness ==
    /\ pc = "categorized"
    /\ LET passed == PostPass(source.text, scan.categories)
       IN  \E k \in DOMAIN passed :
               /\ passed[k][2] = <<>>
               /\ ~HasKey(ret, passed[k][1])
    /\ ret # <<>>

CPD == "Complete Phone Directory"

\* the lines of the phone-directory section: those after the first heading
\* "## Complete Phone Directory" that has a line after it, up to the next
\* level-2 heading
PhoneSection ==
    LET doc == source.text
        heads == {i \in 1..(Len(doc) - 1) : doc[i].kind = "h2" /\ doc[i].text = CPD}
    IN  IF heads = {} THEN {}
        ELSE LET h == CHOOSE i \in heads : \A j \in heads : i <= j
             IN  {j \in (h + 1)..Len(doc) :
                     \A k \in (h + 1)..j : doc[k].kind # "h2"}

\* the data rows of that section: at least two cells, the first not empty,
\* neither the separator row nor the header row
PhoneRows ==
    {j \in PhoneSection :
        /\ source.text[j].kind = "row"
        /\ "---" \notin source.text[j].marks
        /\ "Department" \notin source.text[j].marks
        /\ Len(source.text[j].cells) >= 2
        /\ source.text[j].cells[1] # ""}

FirstHeading(name) ==
    LET heads == {i \in DOMAIN source.text :
                     source.text[i].kind = "h2" /\ source.text[i].text = name}
    IN  IF heads = {} THEN 0 ELSE CHOOSE i \in heads : \A j \in heads : i <= j

\* the level-2 heading line j stands under, "None" before the first heading
Owner(j) ==
    LET heads == {i \in 1..j : source.text[i].kind = "h2"}
    IN  IF heads = {} THEN "None"
        ELSE source.text[CHOOSE i \in heads : \A k \in heads : k <= i].text

\* the name of the entry a line under heading name can give rise to
NameFrom(ln, name) ==
    IF ln.kind = "row"
    THEN IF name = BCC /\ Len(ln.cells) >= 2
         THEN ln.cells[1] \o " - " \o ln.cells[2]
         ELSE IF ln.cells # <<>> THEN ln.cells[1] ELSE ""
    ELSE ln.text

\* the names of the lines under heading name that can give rise to an
\* entry, in source order
RECURSIVE LineNamesFrom(_, _)
LineNamesFrom(j, name) ==
    IF j > Len(source.text) THEN <<>>
    ELSE IF Owner(j) = name /\ source.text[j].kind \in {"h3", "row", "link", "bullet"}
         THEN <<NameFrom(source.text[j], name)>> \o LineNamesFrom(j + 1, name)
         ELSE LineNamesFrom(j + 1, name)

\* xs is ys with some elements left out
RECURSIVE IsSubsequence(_, _)
IsSubsequence(xs, ys) ==
    IF xs = <<>> THEN TRUE
    ELSE IF ys = <<>> THEN FALSE
    ELSE IF Head(xs) = Head(ys) THEN IsSubsequence(Tail(xs), Tail(ys))
    ELSE IsSubsequence(xs, Tail(ys))

\* every category takes its entries, in source order, from distinct lines
\* that stand under its own heading
EntriesUnderOwnHeading ==
    \A k \in DOMAIN ret :
        IsSubsequence([n \in DOMAIN ret[k][2] |-> ret[k][2][n]["name"]],
                      LineNamesFrom(1, ret[k][1]))

----------------------------------------------------------------------------
(* Properties of the steps of the categorized scan *)

\* this step is an iteration of the scan loop, on line scan.i
IsScanStep == pc = "scanning" /\ scan'.i = scan.i + 1

\* the headings of the exclusion set
Excluded == {"Table of Contents", "Overview & Main Sites", "Complete Phone Directory"}

\* C19: in the categorized scan, from a level-2 heading of the exclusion set
\* to the next eligible level-2 heading, no line creates an entry or changes a
\* field of an entry of any category.
C19_ExcludedSectionIgnored ==
    [][(IsScanStep /\ Owner(scan.i) \in Excluded)
          => scan'.categories = scan.categories]_vars

\* an entry with empty fields exists; a heading of the exclusion set follows,
\* and the line with a phone number and an e-mail address under it has been
\* scanned without filling them
C19_Witness ==
    /\ pc = "scanning"
    /\ scan.i = 5
    /\ Owner(4) \in Excluded
    /\ source.text[4].kind = "text"
    /\ source.text[4].emails # <<>>
    /\ scan.categories = <<<<"Utilities", <<BareEntry("Solid Waste")>>>>>>

\* line i is a field line: neither a heading nor a row of the commissioners
\* table
FieldLine(i) ==
    /\ source.text[i].kind \notin {"h2", "h3"}
    /\ ~(Owner(i) = BCC /\ source.text[i].kind = "row")

\* C20: in the categorized scan a field line changes nothing except fields
\* that are still empty in the last-appended entry of the active category: a
\* non-empty phone, email, url or address is never overwritten, names never
\* change, no entry or category is added, and every other entry is left alone.
C20_FieldLineFillsEmptyOnly ==
    [][(IsScanStep /\ FieldLine(scan.i)) =>
          LET old == scan.categories
              new == scan'.categories
          IN  /\ Keys(new) = Keys(old)
              /\ scan'.current_category = scan.current_category
              /\ \A k \in DOMAIN old :
                    /\ Len(new[k][2]) = Len(old[k][2])
                    /\ \A n \in DOMAIN old[k][2] :
                          IF old[k][1] = Owner(scan.i) /\ n = Len(old[k][2])
                          THEN /\ new[k][2][n]["name"] = old[k][2][n]["name"]
                               /\ \A f \in {"phone", "email", "url", "address"} :
                                     old[k][2][n][f] # ""
                                     => new[k][2][n][f] = old[k][2][n][f]
                          ELSE new[k][2][n] = old[k][2][n]]_vars

\* the entry took phone and e-mail from one line; the next line, with another
\* phone number, a URL and an address, filled url and address only
C20_Witness ==
    /\ pc = "scanning"
    /\ scan.i = 5
    /\ source.text[3].phones # <<>>
    /\ source.text[4].phones # <<>>
    /\ source.text[4].phones # source.text[3].phones
    /\ scan.categories =
          <<<<"Utilities",
              <<[name |-> "Solid Waste", phone |-> "(407) 836-6601",
                 email |-> "waste@ocfl.net", url |-> "https://ocfl.net/waste",
                 address |-> "5901 Young Pine Rd"]>>>>>>

----------------------------------------------------------------------------
(* Properties of the passes after the scan *)

\* C21: the post-pass adds entries only to categories the scan left with no
\* entry: a category with at least one entry after the scan is returned with
\* exactly the entries the scan gave it.
C21_PostPassOnlyEmpty ==
    pc = "categorized" =>
        \A k \in DOMAIN scan.categories :
            scan.categories[k][2] # <<>>
            => \E j \in DOMAIN ret : ret[j] = scan.categories[k]

\* a category got an entry from a level-3 heading and also holds a markdown
\* link under its heading: the link gave no entry
C21_Witness ==
    /\ pc = "categorized"
    /\ \E k \in DOMAIN scan.categories :
          /\ Len(scan.categories[k][2]) = 1
          /\ \E j \in DOMAIN source.text :
                /\ Owner(j) = scan.categories[k][1]
                /\ source.text[j].kind = "link"
          /\ \E j \in DOMAIN ret : ret[j] = scan.categories[k]

----------------------------------------------------------------------------
(* Both loaders called on one document with tables: the phone-directory    *)
(* table, its header and separator rows, rows of other shapes, level-3     *)
(* blocks with phone numbers, and a horizontal rule.                       *)

TableLines ==
    { H2("Complete Phone Directory"),
      H2("Utilities"),
      H3("Solid Waste"),
      TextLine(<< <<"407", "836", "6601">> >>, <<"waste@ocfl.net">>,
               <<"https://ocfl.net/waste">>, ""),
      Row(<<"Department", "Phone">>, <<>>, {"Department"}),
      SepRow,
      Row(<<"Fire Rescue", "(407) 836-9000">>, << <<"407", "836", "9000">> >>, {}),
      Row(<<"Solid Waste", "(407) 836-6601">>, << <<"407", "836", "6601">> >>, {}),
      Row(<<"Health Department", "(407) 836-3111">>, << <<"407", "836", "3111">> >>,
          {"Department"}),
      Row(<<"See also">>, <<>>, {}),
      Rule }

TableDocs == StrsUpTo(TableLines, MaxDocLen)

ViewsInit ==
    /\ entries = <<>>
    /\ query = <<>>
    /\ fuzzRatio = <<>>
    /\ jsonOpt = FALSE
    /\ ret = "none"
    /\ out = "none"
    /\ nCompile = 0
    /\ pc = "start"
    /\ now = 0
    /\ ticks = 0
    /\ source \in {[exists |-> TRUE, text |-> d] : d \in TableDocs}
    /\ cacheFile = [k \in Kinds |-> NoFile]
    /\ disk = "ok"
    /\ lastCall = NoCall
    /\ scan = NoScan
    /\ proc = NoProc
    /\ wiz = NoWiz

ViewsNext == LoadDirectory \/ LoadDirectoryByCategory

SpecViews == ViewsInit /\ [][ViewsNext]_vars

\* the flat loader alone on such a document
FlatNext == LoadDirectory

SpecFlat == ViewsInit /\ [][FlatNext]_vars

----------------------------------------------------------------------------
(* Properties of the flat extractor *)

\* the last call was _load_directory and it parsed the document
FlatBuilt == lastCall.kind = "flat" /\ lastCall.built

\* the entries of the flat list that the table pass made: name and phone only
TableEntries(list) == SelectSeq(list, LAMBDA e : DOMAIN e = {"name", "phone"})

\* the entries of the flat list that the heading pass made
HeadingEntries(list) == SelectSeq(list, LAMBDA e : DOMAIN e # {"name", "phone"})

\* the first line that holds the phone-directory heading, 0 when none does
TableStart ==
    LET at == {i \in DOMAIN source.text : source.text[i].text = CPD}
    IN  IF at = {} THEN 0 ELSE CHOOSE i \in at : \A j \in at : i <= j

\* the rows after the phone-directory heading that are neither the separator
\* row nor the header row (the row of column titles) and have two columns
DataRows ==
    {j \in DOMAIN source.text :
        /\ TableStart > 0
        /\ j > TableStart
        /\ source.text[j].kind = "row"
        /\ source.text[j] # SepRow
        /\ Len(source.text[j].cells) >= 2
        /\ source.text[j].cells[1] # "Department"}

\* C22: in the flat extractor every table row after the phone-directory
\* heading that is no separator or header row and has at least two columns
\* yields one entry {name: column 0, phone: column 1}, whatever its name cell
\* holds; other rows yield nothing.
C22_EveryDataRow ==
    FlatBuilt =>
        LET made == TableEntries(lastCall.value)
        IN  /\ Len(made) = Cardinality(DataRows)
            /\ \A j \in DataRows :
                  made[1 + Cardinality({i \in DataRows : i < j})] =
                      [name |-> source.text[j].cells[1],
                       phone |-> source.text[j].cells[2]]

\* the lines of the k-th level-3 block after its heading line
BlockBody(k) ==
    SubSeq(source.text, Sections(source.text)[k][1] + 1, Sections(source.text)[k][2])

\* the phone numbers found in the k-th level-3 block, formatted, in order
BlockPhones(k) ==
    LET found == Flatten([j \in DOMAIN BlockBody(k) |-> BlockBody(k)[j].phones])
    IN  [m \in DOMAIN found |-> FormatPhone(found[m])]

\* the heading text of the k-th level-3 block
BlockTitle(k) == source.text[Sections(source.text)[k][1]].text

\* the occurrences of phone numbers in level-3 blocks: <<block, position>>
Occurrences ==
    {o \in (DOMAIN Sections(source.text)) \X (1..(2 * MaxDocLen)) :
        o[2] \in DOMAIN BlockPhones(o[1])}

\* occurrence a comes before occurrence b
Before(a, b) == a[1] < b[1] \/ (a[1] = b[1] /\ a[2] < b[2])

PairOf(o) == <<BlockTitle(o[1]), BlockPhones(o[1])[o[2]]>>

\* the (name, phone) pairs the table pass produced
TablePairs(list) ==
    {<<TableEntries(list)[i]["name"], TableEntries(list)[i]["phone"]>> :
        i \in DOMAIN TableEntries(list)}

\* the entry the heading pass builds for an occurrence
HeadingEntry(o) ==
    [name |-> BlockTitle(o[1]),
     phone |-> BlockPhones(o[1])[o[2]],
     email |-> FirstOrEmpty(Flatten([j \in DOMAIN BlockBody(o[1]) |-> BlockBody(o[1])[j].emails])),
     url |-> FirstOrEmpty(Flatten([j \in DOMAIN BlockBody(o[1]) |-> BlockBody(o[1])[j].urls]))]

\* the heading entries are exactly the occurrences of the set kept, in order
HeadingPassYields(list, kept) ==
    /\ Len(HeadingEntries(list)) = Cardinality(kept)
    /\ \A o \in kept :
          HeadingEntries(list)[1 + Cardinality({a \in kept : Before(a, o)})] = HeadingEntry(o)

\* C23 as stated: each distinct phone number of a level-3 block yields one
\* entry, skipped only when the table pass produced the same (name, phone)
\* pair; a pair repeated in a later block is entered again.
C23_AsClaimed ==
    FlatBuilt =>
        HeadingPassYields(lastCall.value,
            {o \in Occurrences :
                /\ PairOf(o) \notin TablePairs(lastCall.value)
                /\ ~\E a \in Occurrences :
                       a[1] = o[1] /\ a[2] < o[2] /\ PairOf(a) = PairOf(o)})

\* C23: in the heading pass of the flat extractor, an occurrence of a phone
\* number in a level-3 block yields one entry {name, phone, first email or
\* "", first url or ""} exactly when no entry with the same (name, phone)
\* pair is in the list yet, whether from the table pass or from an earlier
\* occurrence in the same or an earlier block.
C23_HeadingPass ==
    FlatBuilt =>
        HeadingPassYields(lastCall.value,
            {o \in Occurrences :
                /\ PairOf(o) \notin TablePairs(lastCall.value)
                /\ ~\E a \in Occurrences : Before(a, o) /\ PairOf(a) = PairOf(o)})

C23_Witness ==
    /\ FlatBuilt
    /\ \E o \in Occurrences : \E a \in Occurrences :
          /\ a[1] < o[1]
          /\ PairOf(a) = PairOf(o)
          /\ PairOf(o) \notin TablePairs(lastCall.value)
    /\ Len(HeadingEntries(lastCall.value)) = 1

----------------------------------------------------------------------------
(* Properties of the scores of _fuzzy_search *)

\* the whitespace-separated words of the lowercased query, each occurrence
QueryWords == Split(Lower(query))

\* whether the word is a substring of some word of the lowercased name
WordInName(w, e) ==
    \E i \in DOMAIN Split(Lower(e["name"])) : Contains(Split(Lower(e["name"]))[i], w)

\* the first occurrences of the words of the query
FirstWords == {i \in DOMAIN QueryWords : \A j \in 1..(i - 1) : QueryWords[j] # QueryWords[i]}

\* C24 as stated: the token score is 80 * k / n with n the number of words
\* of the query, each occurrence counted, and k the number of those that are
\* in a word of the name. TokenScore is the score times ScoreScale.
C24_AsClaimed ==
    FuzzyDone =>
        \A i \in DOMAIN entries :
            ~Contains(Lower(entries[i]["name"]), Lower(query))
            => TokenScore(entries[i], query) * Len(QueryWords) =
                   80 * ScoreScale(query)
                      * Cardinality({w \in DOMAIN QueryWords :
                                        WordInName(QueryWords[w], entries[i])})

\* C24: for an entry whose name does not contain the query, the token score
\* is 80 * k / n with n the number of distinct words of the lowercased query
\* and k the number of those distinct words that are a substring of some
\* word of the lowercased name; it is 0 when the query has no word.
C24_TokenScore ==
    FuzzyDone =>
        \A i \in DOMAIN entries :
            ~Contains(Lower(entries[i]["name"]), Lower(query))
            => /\ TokenScore(entries[i], query) * Cardinality(FirstWords) =
                      80 * ScoreScale(query)
                         * Cardinality({w \in FirstWords :
                                           WordInName(QueryWords[w], entries[i])})
               /\ QueryWords = <<>> => TokenScore(entries[i], query) = 0

\* a query with a repeated word and another word, and an entry whose name
\* holds the repeated word only: score 40, not 53.3
C24_Witness ==
    /\ FuzzyDone
    /\ Len(QueryWords) = 3
    /\ Cardinality(FirstWords) = 2
    /\ \E i \in DOMAIN entries :
          /\ ~Contains(Lower(entries[i]["name"]), Lower(query))
          /\ Cardinality({w \in DOMAIN QueryWords :
                              WordInName(QueryWords[w], entries[i])}) = 2
          /\ TokenScore(entries[i], query) * 2 = 80 * ScoreScale(query)

\* the entry's name does not contain the query and one of its phone, email
\* and url fields does
FieldMatchOnly(e) ==
    /\ ~Contains(Lower(e["name"]), Lower(query))
    /\ \E field \in {"phone", "email", "url"} :
          field \in DOMAIN e /\ Contains(Lower(e[field]), Lower(query))

\* C25: an entry whose name does not contain the query and whose phone, email
\* or url contains the lowercased query has a best score of at least 80; it
\* is a candidate (returned unless 15 entries that score no less fill the
\* result), and where returned it comes after every name-substring match
\* and after every entry with a higher score.
C25_FieldMatch ==
    FuzzyDone =>
        \A k \in DOMAIN entries :
            FieldMatchOnly(entries[k])
            => /\ BestScore(entries[k], query) >= 80 * ScoreScale(query)
               /\ \/ \E i \in DOMAIN ret : ret[i] = entries[k]
                  \/ /\ Len(ret) = MaxResults
                     /\ \A i \in DOMAIN ret :
                           EntryScore(ret[i], query) >= EntryScore(entries[k], query)
               /\ \A i, j \in DOMAIN ret :
                     /\ ret[i] = entries[k]
                     /\ \/ Contains(Lower(ret[j]["name"]), Lower(query))
                        \/ EntryScore(ret[j], query) > EntryScore(ret[i], query)
                     => j < i

\* a field match that precedes a name-substring match in the input and
\* follows it in the result
C25_Witness ==
    /\ FuzzyDone
    /\ Len(entries) = 2
    /\ FieldMatchOnly(entries[1])
    /\ TokenScore(entries[1], query) = 0
    /\ FuzzScore(entries[1], query) < 40 * ScoreScale(query)
    /\ Contains(Lower(entries[2]["name"]), Lower(query))
    /\ ret = <<entries[2], entries[1]>>

----------------------------------------------------------------------------
(* Properties of the commissioners category *)

\* C26: while the active category is "Board of County Commissioners", a
\* table row with a non-empty column 1 appends one entry named
\* "<col0> - <col1>" with all other fields empty; a table row with an empty
\* column 1 and a level-3 heading append nothing and change no entry.
C26_CommissionersRows ==
    [][(/\ IsScanStep
        /\ scan.current_category = BCC
        /\ source.text[scan.i].kind \in {"row", "h3"}) =>
          LET ln == source.text[scan.i]
              k == KeyIndex(scan.categories, BCC)
          IN  /\ Keys(scan'.categories) = Keys(scan.categories)
              /\ \A j \in DOMAIN scan.categories :
                    j # k => scan'.categories[j] = scan.categories[j]
              /\ IF ln.kind = "row" /\ Len(ln.cells) >= 2 /\ ln.cells[2] # ""
                 THEN scan'.categories[k][2] =
                          Append(scan.categories[k][2],
                                 [name |-> ln.cells[1] \o " - " \o ln.cells[2],
                                  phone |-> "", email |-> "", url |-> "",
                                  address |-> ""])
                 ELSE scan'.categories[k][2] = scan.categories[k][2]]_vars

----------------------------------------------------------------------------
(* The wizard (src/wizard.py): the CLI runner and the text handler of the  *)
(* directory search.  A Python value is a record with its type and its     *)
(* items; message texts are sequences that start with the name of the      *)
(* formatter or the fixed text.                                            *)

Dict(items) == [type |-> "dict", items |-> items]

List(items) == [type |-> "list", items |-> items]

\* the dict with no key
NoItems == [k \in {} |-> ""]

\* d.get(key) of a dict: None when the key is absent
DictGet(d, key) == IF key \in DOMAIN d.items THEN d.items[key] ELSE "None"

\* the truth value of a string or None
Truthy(v) == v # "None" /\ v # ""

\* text printed by a command that is not JSON, after strip()
PlainText(t) == [valid |-> FALSE, data |-> t]

\* subprocess.run raised: the binary is missing or the 30 s timeout expired
CliCrashed == [raised |-> TRUE, returncode |-> 1, stdout |-> PlainText(""), stderr |-> ""]

\* the command exited with a non-zero code
CliFailed(stderr) ==
    [raised |-> FALSE, returncode |-> 1, stdout |-> PlainText(""), stderr |-> stderr]

\* the command exited with code 0
CliPrinted(stdout) == [raised |-> FALSE, returncode |-> 0, stdout |-> stdout, stderr |-> ""]

\* run_ocfl: the parsed JSON output, or a dict with "_raw" or "error"
RunOcfl(o) ==
    IF o.raised THEN Dict("error" :> "exception")
    ELSE IF o.returncode = 0
         THEN IF o.stdout.valid THEN o.stdout.data ELSE Dict("_raw" :> o.stdout.data)
         ELSE Dict("error" :> (IF o.stderr # "" THEN o.stderr ELSE "Command failed"))

\* run_ocfl_raw: the output as text
RunOcflRaw(o) ==
    IF o.raised THEN "Error: exception"
    ELSE IF o.returncode = 0 THEN o.stdout.data
         ELSE IF o.stderr # "" THEN "Error: " \o o.stderr ELSE "Error: Command failed"

\* _back(target): the row with the back button, as its callback_data
Back(target) == <<"ocfl", ":", target>>

\* a returned response
Response(text, buttons) == [raised |-> FALSE, text |-> text, buttons |-> buttons]

\* the handler raised instead of returning
Raised(error) == [raised |-> TRUE, error |-> error]

\* strip_rich_box(linkify_phones_in_text(raw))
StripRichBox(raw) == <<"strip_rich_box", raw>>

\* the line format_directory_result writes for one entry
DirectoryLine(entry) ==
    <<IF "name" \in DOMAIN entry THEN entry["name"]
      ELSE IF "department" \in DOMAIN entry THEN entry["department"] ELSE <<"?">>,
      Get(entry, "phone")>>

\* format_directory_result(data), data a dict
FormatDirectoryResult(data) ==
    IF Truthy(DictGet(data, "_raw")) THEN StripRichBox(DictGet(data, "_raw"))
    ELSE IF Truthy(DictGet(data, "error")) THEN <<"error", DictGet(data, "error")>>
    ELSE LET results == IF "results" \in DOMAIN data.items THEN data.items["results"]
                        ELSE IF "entries" \in DOMAIN data.items THEN data.items["entries"]
                        ELSE <<>>
         IN  IF results = <<>> THEN <<"Directory Results", "No results found.">>
             ELSE <<"Directory Results">>
                  \o [i \in 1..Min(15, Len(results)) |-> DirectoryLine(results[i])]
                  \o (IF Len(results) > 15 THEN <<"and more">> ELSE <<>>)

\* str.strip() of the text the user sent
RECURSIVE Strip(_)
Strip(s) ==
    IF s = <<>> THEN s
    ELSE IF Head(s) = " " THEN Strip(Tail(s))
    ELSE IF s[Len(s)] = " " THEN Strip(SubSeq(s, 1, Len(s) - 1))
    ELSE s

\* what "ocfl directory <query> --json" prints on success: _directory_search
\* with the JSON option echoes json.dumps(results), a JSON array
DirectorySearchJson(es, q) == Dumps(List(FuzzySearch(es, q)))

\* the outcomes of the subprocess "ocfl directory <text> --json", as a list
SearchCliOutcomes(es, text) ==
    << CliCrashed,
       CliFailed(""),
       CliFailed("Usage: ocfl directory"),
       CliPrinted(PlainText("No results")),
       CliPrinted(PlainText("")),
       CliPrinted(Dumps(Dict(NoItems))),
       CliPrinted(Dumps(Dict("results" :> FuzzySearch(es, text)))),
       CliPrinted(DirectorySearchJson(es, text)) >>

\* the outcomes of the subprocess "ocfl directory <text>", as a list
RawCliOutcomes ==
    << CliCrashed,
       CliFailed(""),
       CliPrinted(PlainText("Directory table")) >>

\* handle_text_input, context "directory_search", after run_ocfl returned data
DirectorySearchInput(data, second) ==
    IF data.type # "dict" THEN Raised("AttributeError")
    ELSE IF Truthy(DictGet(data, "_raw")) \/ Truthy(DictGet(data, "error"))
         THEN Response(StripRichBox(RunOcflRaw(second)), <<Back("directory")>>)
         ELSE Response(FormatDirectoryResult(data), <<Back("directory")>>)

\* the directory menu is on screen and the user has sent nothing yet
TextInit ==
    /\ entries \in StrsUpTo(EntryPool, MaxLen)
    /\ query \in Queries
    /\ fuzzRatio \in [LowerNames -> RatioValues]
    /\ jsonOpt = TRUE
    /\ ret = "none"
    /\ out = "none"
    /\ nCompile = 0
    /\ pc = "start"
    /\ now = 0
    /\ ticks = 0
    /\ source = [exists |-> FALSE, text |-> <<>>]
    /\ cacheFile = [k \in Kinds |-> NoFile]
    /\ disk = "ok"
    /\ lastCall = NoCall
    /\ scan = NoScan
    /\ proc = NoProc
    /\ wiz = NoWiz

\* handle_text_input(query, "directory_search"): out is what the first
\* subprocess did
HandleTextInput ==
    /\ pc = "start"
    /\ \E i \in DOMAIN SearchCliOutcomes(entries, Strip(query)), j \in DOMAIN RawCliOutcomes :
          LET first == SearchCliOutcomes(entries, Strip(query))[i]
              second == RawCliOutcomes[j]
          IN  /\ out' = first
              /\ wiz' = [sent |-> Strip(query),
                         response |-> DirectorySearchInput(RunOcfl(first), second)]
    /\ pc' = "text"
    /\ UNCHANGED <<entries, query, fuzzRatio, jsonOpt, ret, nCompile, scan, proc>>
    /\ UNCHANGED cacheVars

TextNext == HandleTextInput

SpecText == TextInit /\ [][TextNext]_vars

----------------------------------------------------------------------------
(* Properties of the wizard *)

\* C27: the text handler of the directory search returns a response with a
\* text field and never raises, whatever the CLI subprocess did: non-zero
\* exit, output that is not JSON, a JSON object, a JSON array.
C27_TextHandlerTotal ==
    pc = "text" => /\ ~wiz.response.raised
                   /\ "text" \in DOMAIN wiz.response

----------------------------------------------------------------------------
(* Properties of the two views of one document *)

\* the (name, phone) pairs of a list of entries, in order
PairsOf(list) == [i \in DOMAIN list |-> <<list[i]["name"], list[i]["phone"]>>]

\* the entries of the phone-directory category of a mapping, <<>> when absent
PhoneCategory(m) ==
    IF \E k \in DOMAIN m : m[k][1] = CPD
    THEN m[CHOOSE k \in DOMAIN m : m[k][1] = CPD][2]
    ELSE <<>>

\* both loaders have parsed the document and stored their result
BothViews ==
    /\ cacheFile["flat"].exists
    /\ cacheFile["categorized"].exists

\* C28: for every source document the (name, phone) pairs of the table
\* entries of the flat view are, in the same order, the (name, phone) pairs
\* of the "Complete Phone Directory" category of the categorized view.
C28_SameTableRows ==
    BothViews =>
        PairsOf(TableEntries(cacheFile["flat"].content.data)) =
            PairsOf(PhoneCategory(cacheFile["categorized"].content.data))

----------------------------------------------------------------------------
(* Frame of a loader call *)

\* the modification time 86400 s or more in the past, or no file at all
NoFreshRecord(file, t) == ~file.exists \/ t - file.mtime >= 86400

\* C30: a loader call with the source document missing and no fresh cache
\* record of its kind returns the empty result and leaves the cache file of
\* its kind as it was: not created, and an expired record with the same
\* content and modification time; no loader call changes the cache file of
\* the other kind.
C30_LoaderFrame ==
    [][IsCall =>
         LET k == lastCall'.kind
         IN  /\ \A o \in Kinds \ {k} : cacheFile'[o] = cacheFile[o]
             /\ (~source.exists /\ NoFreshRecord(cacheFile[k], now)) =>
                    /\ lastCall'.outcome = "returned"
                    /\ lastCall'.value = <<>>
                    /\ cacheFile'[k].exists = cacheFile[k].exists
                    /\ cacheFile'[k].mtime = cacheFile[k].mtime
                    /\ cacheFile'[k].content = cacheFile[k].content]_vars

\* the source is missing, the record of the kind has expired and is kept as it
\* was, while the other kind has a cache file of its own
C30_Witness ==
    /\ lastCall.kind \in Kinds
    /\ ~lastCall.src.exists
    /\ lastCall.before.exists
    /\ lastCall.before.content.data # <<>>
    /\ lastCall.at - lastCall.before.mtime >= 86400
    /\ lastCall.value = <<>>
    /\ cacheFile[lastCall.kind] = lastCall.before
    /\ \E o \in Kinds \ {lastCall.kind} :
          cacheFile[o].exists /\ cacheFile[o] # cacheFile[lastCall.kind]

----------------------------------------------------------------------------
(* The wizard's menus: FLOWS and handle_callback.  A callback_data string  *)
(* is the sequence of its words and colons.                                *)

\* the literal "ocfl:<action>" or "ocfl:<action>:<sub>"
Data(action, sub) == IF sub = "" THEN Back(action) ELSE Back(action) \o <<":", sub>>

\* callback_data.split(":"), cur the part being read
RECURSIVE SplitOn(_, _)
SplitOn(s, cur) ==
    IF s = <<>> THEN <<cur>>
    ELSE IF Head(s) = ":" THEN <<cur>> \o SplitOn(Tail(s), "")
    ELSE SplitOn(Tail(s), cur \o Head(s))

FlowKeysShort ==
    {"main", "property", "vehicles", "courts", "elections", "permit",
     "safety", "health", "health_inspections", "utilities",
     "community", "recreation", "government", "forms",
     "forms_homestead", "forms_building_permit", "pets", "inmate",
     "directory"}

\* the keys of FLOWS
FlowKeys ==
    {"main", "property", "vehicles", "courts", "elections", "permit",
     "safety", "health", "health_inspections", "utilities",
     "community", "recreation", "government", "forms",
     "forms_homestead", "forms_building_permit", "pets", "inmate",
     "directory", "library"}

\* FLOWS[key]["buttons"]: the callback_data of the buttons, row after row
FLOWS(key) ==
    CASE key = "main" ->
           << Data("property", ""), Data("vehicles", ""),
              Data("courts", ""), Data("elections", ""),
              Data("permit", ""), Data("safety", ""),
              Data("health", ""), Data("utilities", ""),
              Data("community", ""), Data("recreation", ""),
              Data("government", ""), Data("forms", ""),
              Data("pets", ""), Data("inmate", ""),
              Data("directory", ""), Data("library", "") >>
      [] key = "property" ->
           << Data("property", "my_address"),
              Data("property", "parcel_prompt"),
              Data("property", "homestead"),
              Data("property", "appraisal"), Data("property", "flood"),
              Data("property", "domicile"), Data("main", "") >>
      [] key = "vehicles" ->
           << Data("vehicles", "registration"),
              Data("vehicles", "title"), Data("vehicles", "boat"),
              Data("vehicles", "mobilehome"), Data("vehicles", "dmv"),
              Data("main", "") >>
      [] key = "courts" ->
           << Data("courts", "marriage"), Data("courts", "deeds"),
              Data("courts", "vitals"), Data("courts", "passport"),
              Data("courts", "notary"), Data("courts", "probate"),
              Data("courts", "jury"), Data("courts", "records"),
              Data("courts", "pd"), Data("main", "") >>
      [] key = "elections" ->
           << Data("elections", "voter"), Data("elections", "ballot"),
              Data("elections", "info"), Data("main", "") >>
      [] key = "permit" ->
           << Data("permit", "fence"), Data("permit", "pool"),
              Data("permit", "roof"), Data("permit", "adu"),
              Data("permit", "garage_sale"), Data("permit", "tree"),
              Data("permit", "biztax"), Data("permit", "str"),
              Data("permit", "inspection"), Data("permit", "dba"),
              Data("main", "") >>
      [] key = "safety" ->
           << Data("safety", "hurricane"), Data("safety", "stray"),
              Data("safety", "ccw"), Data("safety", "fingerprint"),
              Data("safety", "dv"), Data("safety", "code"),
              Data("main", "") >>
      [] key = "health" ->
           << Data("health", "inspections"),
              Data("health", "mosquito"), Data("health", "clinic"),
              Data("health", "crisis"), Data("health", "vector"),
              Data("health", "cemetery"), Data("main", "") >>
      [] key = "health_inspections" ->
           << Data("health", "") >>
      [] key = "utilities" ->
           << Data("utilities", "311"), Data("utilities", "trash"),
              Data("utilities", "pothole"),
              Data("utilities", "drainage"),
              Data("utilities", "dumping"), Data("main", "") >>
      [] key = "community" ->
           << Data("community", "seniors"),
              Data("community", "family"),
              Data("community", "medicaid"),
              Data("community", "workforce"),
              Data("community", "extension"), Data("main", "") >>
      [] key = "recreation" ->
           << Data("recreation", "reserve"),
              Data("recreation", "libcard"),
              Data("recreation", "hunting"),
              Data("recreation", "arts"), Data("main", "") >>
      [] key = "government" ->
           << Data("government", "budget"), Data("government", "bids"),
              Data("main", "") >>
      [] key = "forms" ->
           << Data("forms", "homestead"),
              Data("forms", "building-permit"), Data("forms", "list"),
              Data("main", "") >>
      [] key = "forms_homestead" ->
           << Data("forms", "") >>
      [] key = "forms_building_permit" ->
           << Data("forms", "") >>
      [] key = "pets" ->
           << Data("pets", "dog"), Data("pets", "cat"),
              Data("pets", "ready"), Data("pets", "stats"),
              Data("main", "") >>
      [] key = "inmate" ->
           << Data("inmate", "bookings"),
              Data("inmate", "appearances"), Data("main", "") >>
      [] key = "directory" ->
           << Data("directory", "categories"),
              Data("directory", "list"), Data("main", "") >>
      [] key = "library" ->
           << Data("main", "") >>

\* the keys of GUIDE_COMMANDS
GuideKeys ==
    {"vehicles", "courts", "elections", "safety", "health",
     "utilities", "community", "recreation", "government",
     "property_guides"}

\* the keys of GUIDE_COMMANDS[action]
GUIDE_COMMANDS(action) ==
    CASE action = "vehicles" ->
           {"registration", "title", "boat", "mobilehome", "dmv"}
      [] action = "courts" ->
           {"marriage", "deeds", "vitals", "passport", "notary",
            "probate", "jury", "records", "pd"}
      [] action = "elections" ->
           {"voter", "ballot", "info"}
      [] action = "safety" ->
           {"hurricane", "stray", "ccw", "fingerprint", "dv", "code"}
      [] action = "health" ->
           {"mosquito", "clinic", "crisis", "vector", "cemetery"}
      [] action = "utilities" ->
           {"311", "trash", "pothole", "drainage", "dumping"}
      [] action = "community" ->
           {"seniors", "family", "medicaid", "workforce", "extension"}
      [] action = "recreation" ->
           {"reserve", "libcard", "hunting", "arts"}
      [] action = "government" ->
           {"budget", "bids"}
      [] action = "property_guides" ->
           {"homestead", "appraisal", "flood", "domicile"}
      [] OTHER -> {}

PERMIT_EXTRA == {"biztax", "str", "inspection", "dba"}

PROPERTY_GUIDE_SUBS == {"homestead", "appraisal", "flood", "domicile"}

\* isinstance(data, dict) and not data.get("error") and not data.get("_raw")
IsPlainDict(data) ==
    /\ data.type = "dict"
    /\ ~Truthy(DictGet(data, "error"))
    /\ ~Truthy(DictGet(data, "_raw"))

\* a formatter that starts with data.get: format_pets_result,
\* format_permit_result, format_bookings_result, format_directory_summary
FormatResult(name, data, target) ==
    IF data.type # "dict" THEN Raised("AttributeError")
    ELSE IF Truthy(DictGet(data, "_raw"))
    THEN Response(StripRichBox(DictGet(data, "_raw")), <<Back(target)>>)
    ELSE IF Truthy(DictGet(data, "error"))
    THEN Response(<<name, "error", DictGet(data, "error")>>, <<Back(target)>>)
    ELSE Response(<<name, "data">>, <<Back(target)>>)

\* the JSON text of the command, or the raw text of a second run
JsonOrRaw(name, data, raw, target) ==
    IF IsPlainDict(data) THEN Response(<<name, "data">>, <<Back(target)>>)
    ELSE Response(StripRichBox(raw), <<Back(target)>>)

\* {"text": flow["text"], "buttons": flow.get("buttons", [])}
FlowResponse(key) == Response(<<"flow", key>>, FLOWS(key))

\* handle_callback(callback_data): first and second are what the first and
\* the second run of the CLI did, raw what run_ocfl_raw returned
HandleCallback(callback_data, first, second, raw) ==
    LET parts == SplitOn(callback_data, "")
        action == parts[2]
        sub_action == IF Len(parts) > 2 THEN parts[3] ELSE "None"
        data == RunOcfl(first)
    IN  IF Len(parts) < 2 \/ parts[1] # "ocfl"
        THEN [raised |-> FALSE, text |-> <<"Unknown action">>]
        ELSE IF action \in FlowKeys /\ ~Truthy(sub_action)
        THEN FlowResponse(action)
        ELSE IF action = "health" /\ sub_action = "inspections"
        THEN FlowResponse("health_inspections")
        ELSE IF action = "forms" /\ sub_action = "homestead"
        THEN FlowResponse("forms_homestead") @@ ("expects_input" :> TRUE)
        ELSE IF action = "forms" /\ sub_action = "building-permit"
        THEN FlowResponse("forms_building_permit") @@ ("expects_input" :> TRUE)
        ELSE IF action = "forms" /\ sub_action = "list"
        THEN JsonOrRaw("format_json_forms_list", data, raw, "forms")
        ELSE IF action = "pets" /\ sub_action \in {"dog", "cat", "ready", "stats"}
        THEN FormatResult("format_pets_result", data, "pets")
        ELSE IF action = "permit" /\ Truthy(sub_action)
        THEN IF sub_action \in PERMIT_EXTRA
             THEN JsonOrRaw("format_json_service", data, raw, "permit")
             ELSE IF IsPlainDict(data)
             THEN Response(<<"format_json_permit", "data">>, <<Back("permit")>>)
             ELSE FormatResult("format_permit_result", RunOcfl(second), "permit")
        ELSE IF action = "inmate" /\ sub_action = "bookings"
        THEN FormatResult("format_bookings_result", data, "inmate")
        ELSE IF action = "inmate" /\ sub_action = "appearances"
        THEN Response(<<"First Appearances">>, <<Back("inmate")>>)
        ELSE IF action = "property" /\ sub_action \in PROPERTY_GUIDE_SUBS
        THEN JsonOrRaw("format_json_service", data, raw, "property")
        ELSE IF action = "property" /\ sub_action = "parcel_prompt"
        THEN Response(<<"Send me the parcel ID number">>, <<Back("property")>>)
                 @@ ("expects_input" :> TRUE)
        ELSE IF action = "property" /\ sub_action = "my_address"
        THEN Response(<<"Send me your address">>, <<Back("property")>>)
                 @@ ("expects_input" :> TRUE)
        ELSE IF action = "directory" /\ sub_action = "categories"
        THEN IF IsPlainDict(data)
             THEN Response(<<"format_json_directory_categories", "data">>,
                           <<Back("directory")>>)
             ELSE FormatResult("format_directory_summary", data, "directory")
        ELSE IF action = "directory" /\ sub_action = "list"
        THEN IF IsPlainDict(data)
             THEN Response(<<"format_json_directory_list", "data">>, <<Back("directory")>>)
             ELSE FormatResult("format_directory_summary", data, "directory")
        ELSE IF /\ action \in GuideKeys
                /\ Truthy(sub_action)
                /\ sub_action \in GUIDE_COMMANDS(action)
        THEN IF IsPlainDict(data)
             THEN Response(<<"format_json_service", "data">>, <<Back(action)>>)
             ELSE IF data.type # "dict" THEN Raised("AttributeError")
             ELSE IF Truthy(DictGet(data, "_raw"))
             THEN Response(StripRichBox(DictGet(data, "_raw")), <<Back(action)>>)
             ELSE Response(StripRichBox(raw), <<Back(action)>>)
        ELSE Response(<<"Action not implemented yet">>, <<Back("main")>>)

\* the outcomes of the subprocesses of handle_callback, as a list: the
\* commands it runs print a JSON object, or text that is not JSON
CallbackCliOutcomes ==
    << CliCrashed,
       CliFailed(""),
       CliFailed("Usage: ocfl"),
       CliPrinted(PlainText("Rich text")),
       CliPrinted(PlainText("")),
       CliPrinted(Dumps(Dict(NoItems))),
       CliPrinted(Dumps(Dict("name" :> "Service"))),
       CliPrinted(Dumps(Dict("error" :> "Unknown permit type"))) >>

\* "wizard.py start": the main menu is on screen
MenuInit ==
    /\ entries = <<>>
    /\ query = <<>>
    /\ fuzzRatio = <<>>
    /\ jsonOpt = FALSE
    /\ ret = "none"
    /\ out = "none"
    /\ nCompile = 0
    /\ pc = "start"
    /\ now = 0
    /\ ticks = 0
    /\ source = [exists |-> FALSE, text |-> <<>>]
    /\ cacheFile = [k \in Kinds |-> NoFile]
    /\ disk = "ok"
    /\ lastCall = NoCall
    /\ scan = NoScan
    /\ proc = NoProc
    /\ wiz = [sent |-> <<>>, response |-> FlowResponse("main")]

\* the user presses a button of the last response: handle_callback
PressButton ==
    /\ pc \in {"start", "menu"}
    /\ ~wiz.response.raised
    /\ "buttons" \in DOMAIN wiz.response
    /\ \E b \in DOMAIN wiz.response.buttons :
       \E i, j \in DOMAIN CallbackCliOutcomes :
       \E r \in DOMAIN RawCliOutcomes :
          wiz' = [sent |-> wiz.response.buttons[b],
                  response |-> HandleCallback(wiz.response.buttons[b],
                                              CallbackCliOutcomes[i],
                                              CallbackCliOutcomes[j],
                                              RunOcflRaw(RawCliOutcomes[r]))]
    /\ pc' = "menu"
    /\ UNCHANGED <<entries, query, fuzzRatio, jsonOpt, ret, out, nCompile, scan, proc>>
    /\ UNCHANGED cacheVars

MenuNext == PressButton

SpecMenu == MenuInit /\ [][MenuNext]_vars

\* the two texts handle_callback answers with when it has no branch
Unhandled == {"Unknown action", "Action not implemented yet"}

\* C29: every callback_data of every button of every menu of FLOWS, and of
\* every back button of a response, is dispatched by handle_callback to a
\* branch that returns a response of its own, never "Unknown action" or
\* "Action not implemented yet", whatever the CLI does; so every state
\* reached from the main menu by pressing buttons is a handled state.
C29_EveryButtonHandled ==
    /\ pc = "menu" => /\ ~wiz.response.raised
                       /\ wiz.response.text[1] \notin Unhandled
    /\ \A key \in FlowKeys : \A b \in DOMAIN FLOWS(key) :
       \A i, j \in DOMAIN CallbackCliOutcomes : \A r \in DOMAIN RawCliOutcomes :
          LET response == HandleCallback(FLOWS(key)[b], CallbackCliOutcomes[i],
                                         CallbackCliOutcomes[j],
                                         RunOcflRaw(RawCliOutcomes[r]))
          IN  /\ ~response.raised
              /\ response.text[1] \notin Unhandled
              /\ \A n \in DOMAIN response.buttons :
                    SplitOn(response.buttons[n], "")[2] \in FlowKeys

\* the inspections button of the health menu was pressed and its prompt is
\* shown, with a back button to the health menu
C29_Witness ==
    /\ pc = "menu"
    /\ wiz.sent = Data("health", "inspections")
    /\ wiz.response.text = <<"flow", "health_inspections">>
    /\ wiz.response.buttons = <<Back("health")>>

====
